---- MODULE Spec2Model ----
(***************************************************************************)
(* Verification model of perp-dex-tools.                                   *)
(*                                                                         *)
(*  Spec       the trading engine (trading_bot.py) driving the GRVT        *)
(*             adapter (exchanges/grvt.py) against a venue that resolves,  *)
(*             fills and cancels orders and streams order updates.         *)
(*  FairSpec   Spec with weak fairness of the engine's control loop.       *)
(*  FairVenueSpec  a fresh run under a venue that answers fairly.          *)
(*  SpecRun    Spec with a keyboard interrupt of run().                    *)
(*  SpecStatus, SpecBook, SpecPrune, SpecMemo, SpecPrice, SpecTick,        *)
(*  SpecFactory    one subsystem each: status log, Lighter order book,     *)
(*             level pruning, Lighter order stream, close price, the       *)
(*             stop/pause price check, the exchange factory.               *)
(*  SpecWait, SpecGrid, SpecCallback, SpecQuote, SpecOpen                 *)
(*             one function each on drawn inputs: the cool-down, the grid  *)
(*             step gate, the stream callbacks with the handler, the open  *)
(*             price, Lighter's place_open_order.                          *)
(*                                                                         *)
(* Time is abstracted: a wait that the code bounds by a timeout either     *)
(* ends by its event or by the timeout, and a comparison of elapsed time   *)
(* is an input.  Prices are abstracted in the engine: what a BBO read      *)
(* decides (stop, pause, grid gate) is an input of the step, and so are    *)
(* the two prices the stale-open test compares.                            *)
(* The engine runs with boost_mode = False.                                *)
(***************************************************************************)
EXTENDS Integers, Sequences, FiniteSets, TLC

\* ------------------------------------------------------------- bounds
MaxIds == 3          \* order slots the venue holds at one time
MaxInFlight == 0     \* order updates still in flight when the engine takes a step
Quantity == 2        \* config.quantity, in lots
max_orders == 1      \* config.max_orders
MaxPosition == 5     \* largest position size the venue reports
MaxFaults == 2       \* timed-out polls, failed cancels and failed queries in one run
MaxPriceSteps == 2   \* price levels of the Lighter book
PriceStep == 20000   \* distance between two price levels
MaxSize == 2         \* largest size of a price level
MaxOffset == 3        \* largest order-book offset the venue sends
MaxTakeProfit == 2                   \* config.take_profit, in percent
MaxOpenPrices == 2                   \* open prices are multiples of PriceUnit
PriceUnit == 100                     \* keeps p * (100 +- take_profit) / 100 whole
tick_size == 1                       \* config.tick_size
MaxMemoIds == 2                      \* order and client indexes of the Lighter stream
MaxFilled == 1                       \* filled_base_amount of a Lighter update
MaxNameLen == 2                      \* letters of a venue name
MaxTickPrice == 3                    \* prices and thresholds of SpecTick
MaxCloseCount == 6                   \* config.max_orders and close orders of SpecWait
MaxWaitTime == 2                     \* config.wait_time, in seconds
MaxGridStep == 1                     \* config.grid_step, in percent
MaxGridSpan == 3                     \* grid prices run from PriceUnit to PriceUnit + MaxGridSpan
MaxNow == 3                          \* seconds the clock of SpecWait runs
MaxLevels == 1                       \* levels a pruned side keeps in SpecPrune

\* ------------------------------------------------- program constants
max_levels == 100                    \* lighter_custom_websocket.py 201
max_reconnect_delay == 30            \* lighter_custom_websocket.py 246
AttemptCheckEvery == 5   \* "if attempt % 5 == 0" in place_open_order / place_close_order
MinNotional == 40000     \* "size * price >= 40000" in get_best_levels

VARIABLES
  \* --- TradingBot (trading_bot.py)
  pc,                       \* position of run() / the open cycle
  shutdown_requested,
  active_close_orders,      \* set of [id, size]
  close_orders_timestamps,  \* key set of the dict
  last_close_orders,
  last_log_time,            \* 0: never logged, 1: logged
  mismatch_detected,        \* "None" | "True" | "False": run()'s local
  order_filled_amount,
  order_filled_event,
  order_canceled_event,
  order_result,             \* [order_id, status] returned by place_open_order
  \* --- GrvtClient locals of the running call
  attempt,                  \* attempt % 5
  close_base,               \* place_close_order's local active_close_orders
  close_qty,                \* quantity argument of place_close_order
  \* --- the adapter as run() leaves it
  disconnects,              \* shutdown_requested at each call of disconnect(), in call order
  \* --- venue
  orders,                   \* id -> [kind, status, size, filled]
  events,                   \* canonical order updates on their way to the handler
  faults,                   \* timed-out polls, failed cancels, failed queries so far
  \* --- history
  cycle_close_sum,          \* size of the close orders placed in the current cycle
  cycle_open_filled         \* traded size of the open order the current cycle got back

VARIABLES
  \* --- the account the status check reads
  exchange,                 \* config.exchange
  venue_position,           \* the signed position the venue reports
  \* --- LighterCustomWebSocketManager (lighter_custom_websocket.py)
  order_book,               \* [bids, asks], each price -> size, 0 for no level
  best_bid,
  best_ask,
  snapshot_loaded,
  order_book_offset,
  order_book_sequence_gap,
  running,
  ws,                       \* "closed" | "open"
  ws_pc,                    \* position of connect(): "reset" | "recv" | "pong" | "backoff"
  order_book_lock,          \* the asyncio.Lock is held
  sent,                     \* order-book channel requests handed to ws.send on this connection
  \* --- history
  gap_pending,              \* a gap was detected and no snapshot has been applied since
  disconnect_called,        \* disconnect() has been called
  \* --- locals of connect()
  reconnect_delay,          \* seconds the next wait before reconnecting lasts
  slept                     \* seconds the last pass of 417-422 slept, 0 for none or past

VARIABLES
  \* --- LighterClient (lighter.py)
  orders_cache,             \* order_index -> [status, filled_size], NoMemo for no entry
  current_order,            \* the OrderInfo the placement calls poll
  current_order_client_id

VARIABLES
  \* --- _handle_order_result's close order (trading_bot.py 227-367)
  close_request,            \* config, the open order's price and fill, the BBO at the close
  open_quote,               \* place_open_order: config, the BBO of the attempt, its price
  close_order_result        \* what the engine passed on and what the adapter submitted

VARIABLES
  \* --- _check_price_condition (trading_bot.py 455-482)
  price_check               \* config.direction, stop_price, pause_price and the BBO read

VARIABLES
  \* --- _calculate_wait_time (trading_bot.py 163-191)
  wait_check,               \* config, the two fields it keeps, the last call and its result
  \* --- _meet_grid_step_condition (trading_bot.py 428-453)
  grid_check                \* config, the prices of active_close_orders and the BBO read

VARIABLES
  \* --- LighterClient.place_open_order (lighter.py 305-333)
  open_pc,                  \* "idle", or "wait" inside the loop of 320-323
  open_order_result         \* how the last call ended and what it returned

VARIABLES
  \* --- one update through an adapter's stream callback
  current_order_status,     \* TradingBot.current_order_status: written at 117, 198 and 316
                            \* and read nowhere; followed in SpecCallback only
  callback_check            \* the update, its contract, config.close_order_side and what
                            \* reached order_update_handler

VARIABLES
  \* --- ExchangeFactory (exchanges/factory.py)
  registered_exchanges,     \* _registered_exchanges: name -> class path, NoClass for no key
  factory_result            \* what the last call returned or raised

engineVars == <<pc, shutdown_requested, active_close_orders, close_orders_timestamps,
                last_close_orders, last_log_time, mismatch_detected,
                order_filled_amount, order_filled_event,
                order_canceled_event, order_result, attempt, close_base,
                close_qty, disconnects>>
venueVars == <<orders, events>>
historyVars == <<cycle_close_sum, cycle_open_filled>>
statusVars == <<exchange, venue_position>>
bookVars == <<order_book, best_bid, best_ask, snapshot_loaded, order_book_offset,
              order_book_sequence_gap, running, ws, ws_pc, order_book_lock, sent,
              gap_pending, disconnect_called, reconnect_delay, slept>>
backoffVars == <<reconnect_delay, slept>>
memoVars == <<orders_cache, current_order, current_order_client_id>>
priceVars == <<close_request, close_order_result, open_quote>>
tickVars == <<price_check>>
factoryVars == <<registered_exchanges, factory_result>>
openVars == <<open_pc, open_order_result>>
gateVars == <<wait_check, grid_check, openVars>>
callbackVars == <<current_order_status, callback_check>>
outsideEngine == <<statusVars, bookVars, memoVars, priceVars, tickVars, factoryVars, gateVars,
                   callbackVars>>
vars == <<engineVars, venueVars, faults, historyVars, statusVars, bookVars, memoVars,
          priceVars, tickVars, factoryVars, gateVars, callbackVars>>

loopVars == <<active_close_orders, close_orders_timestamps, last_close_orders,
              last_log_time, mismatch_detected>>
handlerVars == <<order_filled_amount, order_filled_event, order_canceled_event>>
cycleLocals == <<order_result, attempt, close_base, close_qty>>
worldVars == <<venueVars, faults, historyVars>>

Ids == 1..MaxIds
NoOrder == [kind |-> "none", status |-> "NONE", size |-> 0, filled |-> 0]
NoResult == [order_id |-> 0, status |-> "NONE"]
Terminal == {"FILLED", "CANCELLED", "REJECTED"}

\* ------------------------------------------------------------ venue

\* fetch_open_orders: the orders resting on the book.
ActiveOrders(ords) == {i \in Ids : ords[i].status = "OPEN"}

\* get_active_orders filtered by side == close_order_side, as run() builds it.
CloseOrdersOf(ords) ==
  {[id |-> i, size |-> ords[i].size] : i \in {j \in ActiveOrders(ords) : ords[j].kind = "close"}}

ActiveOpenOrders(ords) == {i \in ActiveOrders(ords) : ords[i].kind = "open"}

ActiveCloseCount(ords) == Cardinality({i \in ActiveOrders(ords) : ords[i].kind = "close"})

\* Ids the venue can hand out: unused and not remembered by the engine.
FreeIds ==
  {i \in Ids : /\ orders[i].kind = "none"
               /\ i \notin close_orders_timestamps
               /\ i \notin {o.id : o \in active_close_orders}}

NewId == CHOOSE i \in FreeIds : \A j \in FreeIds : i <= j

\* A venue that keeps every order on record, so that its slots run out.
KeepAll(ords, keep) == ords

\* A terminal order nobody refers to any more leaves the venue's records.
Forget(ords, keep) ==
  [i \in Ids |-> IF ords[i].status \in Terminal /\ i \notin keep THEN NoOrder ELSE ords[i]]

\* The order the running cycle can still ask the venue about: its open order,
\* until the cancellation has been waited for (get_order_info at trading_bot.py
\* 279, 291, 330; cancel_order at 311).
Referenced ==
  IF pc \in {"handle", "stale", "cancel", "cancel_wait"} THEN {order_result.order_id} ELSE {}

\* A status map that passes the venue's terms on.
VenueStatus(status, filled) == status

\* ------------------------------------- GRVT order-update normalizer
\* grvt.py 167-177: status_map, then OPEN with traded size > 0 is PARTIALLY_FILLED.
MappedStatus(status, filled) ==
  IF status = "OPEN" /\ filled > 0 THEN "PARTIALLY_FILLED"
  ELSE IF status \in {"CANCELLED", "REJECTED"} THEN "CANCELED"
  ELSE status

\* grvt.py 161-164: order_type from the side.
OrderType(o) == IF o.kind = "close" THEN "CLOSE" ELSE "OPEN"

\* grvt.py 179-192: only these statuses reach the engine's handler.
Forwarded(status) == status \in {"OPEN", "PARTIALLY_FILLED", "FILLED", "CANCELED"}

Normalize(o) ==
  [otype |-> OrderType(o), status |-> MappedStatus(o.status, o.filled), filled |-> o.filled]

\* order_update_handler 119-140: the updates that set a field of the engine.
HandlerSetsFilled(m) == m.status = "FILLED" /\ m.otype = "OPEN"

HandlerSetsCanceled(m) == m.status = "CANCELED" /\ m.otype = "OPEN"

\* A handler that treats CLOSE updates as OPEN updates.
HandlerIgnoresType(h, m) ==
  [amount   |-> IF m.status \in {"FILLED", "CANCELED"} THEN m.filled ELSE h.amount,
   filled   |-> (h.filled \/ m.status = "FILLED"),
   canceled |-> (h.canceled \/ m.status = "CANCELED")]

\* order_update_handler 104-158: the engine's fields after one canonical update.
OrderUpdateHandler(h, m) ==
  [amount   |-> IF HandlerSetsFilled(m) \/ HandlerSetsCanceled(m) THEN m.filled ELSE h.amount,
   filled   |-> (h.filled \/ HandlerSetsFilled(m)),
   canceled |-> (h.canceled \/ HandlerSetsCanceled(m))]

\* The stream after the venue reports order state o.  An update that the
\* normalizer drops, or that the handler only logs, is consumed on arrival.
Emit(evs, o) ==
  IF /\ Forwarded(MappedStatus(o.status, o.filled))
     /\ HandlerSetsFilled(Normalize(o)) \/ HandlerSetsCanceled(Normalize(o))
  THEN Append(evs, Normalize(o))
  ELSE evs

CanEmit(o) == Len(Emit(events, o)) <= MaxInFlight + 1

\* The stream's callback has run for all but MaxInFlight updates.
Settled == Len(events) <= MaxInFlight

\* ------------------------------------------------ TradingBot helpers

\* A reconciliation that inserts and never evicts: what the key set would be
\* without lines 612-615.
ReconcileWithoutEviction(ts, ids) == ts \cup ids

\* run() 609-615: insert the timestamps of new close orders, evict the expired.
ReconcileTimestamps(ts, ids) ==
  LET added == ts \cup ids
      expired == added \ ids
  IN  added \ expired

SumSizes(S) ==
  LET RECURSIVE Sum(_)
      Sum(T) == IF T = {} THEN 0
                ELSE LET x == CHOOSE y \in T : TRUE IN x.size + Sum(T \ {x})
  IN  Sum(S)

\* grvt.py 499-508 returns abs(size); lighter.py 504-514 returns the signed position.
GetAccountPositions(adapter, raw) ==
  IF adapter = "grvt" THEN (IF raw < 0 THEN -raw ELSE raw) ELSE raw

Abs(x) == IF x < 0 THEN -x ELSE x

\* trading_bot.py 401: abs(position_amt - active_close_amount) > 2 * quantity
PositionMismatch(position_amt, active_close_amount, quantity) ==
  Abs(position_amt - active_close_amount) > 2 * quantity

\* _log_status_periodically 387-418 on the position the venue holds.
StatusOutcome(adapter, raw, closes) ==
  PositionMismatch(GetAccountPositions(adapter, raw), SumSizes(closes), Quantity)

\* A loop without the guard of line 636.
ProceedAlways(mismatch) == TRUE

\* trading_bot.py 636: "if not mismatch_detected" (None and False both proceed).
ProceedToOpen(mismatch) == mismatch # "True"

\* trading_bot.py 163-191, the elapsed-time comparison of line 188 being an input.
CalculateWaitTime(n, last, elapsed) ==
  IF n < last THEN 0
  ELSE IF n >= max_orders THEN 1
  ELSE IF elapsed THEN 0 ELSE 1

\* A cool-down of wait_time at every fill ratio.
CoolDownFlat(n, cap, wait_time) == 4 * wait_time

\* _calculate_wait_time 175-182, in quarters of a second; n / cap >= 2/3 is
\* 3 * n >= 2 * cap, both sides of the code's comparison being the correctly
\* rounded quotients of the same integers.
CoolDownTime(n, cap, wait_time) ==
  IF 3 * n >= 2 * cap THEN 4 * (2 * wait_time)
  ELSE IF 3 * n >= cap THEN 4 * wait_time
  ELSE IF 6 * n >= cap THEN 2 * wait_time
  ELSE wait_time

\* _calculate_wait_time 163-191 called at time now with n active close orders:
\* what it returns and the two fields as it leaves them.
CalculateWaitTimeAt(w, n, now) ==
  IF n < w.last_close_orders
  THEN [wait |-> 0, last_close_orders |-> n,
        last_open_order_time |-> w.last_open_order_time]
  ELSE IF n >= w.max_orders
  THEN [wait |-> 1, last_close_orders |-> n,
        last_open_order_time |-> w.last_open_order_time]
  ELSE LET started == IF w.last_open_order_time = 0 /\ n > 0 THEN now
                      ELSE w.last_open_order_time
       IN [wait |-> IF 4 * (now - started) > CoolDownTime(n, w.max_orders, w.wait_time)
                    THEN 0 ELSE 1,
           last_close_orders |-> n, last_open_order_time |-> started]

NoGridCheck ==
  [direction |-> "buy", take_profit |-> 0, grid_step |-> 0, closes |-> {},
   best_bid |-> 0, best_ask |-> 0]

\* No message: the callback returned without calling order_update_handler.
NoMessage == [contract_id |-> "none", otype |-> "NONE", status |-> "NONE", filled |-> 0]

NoCallback ==
  [adapter |-> "none", contract_id |-> "none", close_order_side |-> "none",
   message |-> NoMessage, done |-> TRUE, handled |-> NoMessage]

CallbackIdle == current_order_status = "None" /\ callback_check = NoCallback

\* The clock starts late enough for the epoch to exceed every cool-down.
ClockStart == 2 * MaxWaitTime + 1

\* TradingBot.__init__ 77-78.
NoWaitCheck ==
  [max_orders |-> 1, wait_time |-> 1, last_close_orders |-> 0,
   last_open_order_time |-> 0, now |-> ClockStart, n |-> 0, wait |-> 1]


\* graceful_shutdown 89-100: shutdown_requested is set (92) before the adapter's
\* disconnect() is called (96), so the call finds the flag set.
GracefulShutdown(calls) == Append(calls, TRUE)

\* A run() whose finally clause releases nothing.
FinallyWithoutDisconnect(calls, flag) == calls

\* run() 659-664: the finally clause calls disconnect() with the flag as it is.
Finally(calls, flag) == Append(calls, flag)

\* ------------------------------------------------------------- Init

InitialOrders(k) ==
  [i \in Ids |-> IF i <= k
                 THEN [kind |-> "close", status |-> "OPEN", size |-> Quantity, filled |-> 0]
                 ELSE NoOrder]

EngineInit ==
  /\ pc = "loop"
  /\ shutdown_requested = FALSE
  /\ active_close_orders = {}
  /\ close_orders_timestamps = {}
  /\ last_close_orders = 0
  /\ last_log_time = 0
  /\ mismatch_detected = "None"
  /\ order_filled_amount = 0
  /\ order_filled_event = FALSE
  /\ order_canceled_event = FALSE
  /\ order_result = NoResult
  /\ attempt = 0
  /\ close_base = 0
  /\ close_qty = 0
  /\ disconnects = <<>>
  /\ cycle_close_sum = 0
  /\ events = <<>>
  /\ faults = 0
  /\ cycle_open_filled = 0

\* ------------------------------------------- Lighter order book: data

None == 0                            \* Python's None for a price or an offset

NoOpenResult == [outcome |-> "none", order_id |-> None, status |-> "NONE"]
OpenIdle == open_pc = "idle" /\ open_order_result = NoOpenResult

GateIdle == wait_check = NoWaitCheck /\ grid_check = NoGridCheck /\ OpenIdle
Prices == {p * PriceStep : p \in 1..MaxPriceSteps}
Sizes == 0..MaxSize
Offsets == 1..MaxOffset

EmptySide == [p \in Prices |-> 0]
EmptyBook == [bids |-> EmptySide, asks |-> EmptySide]
Levels(side) == {p \in Prices : side[p] > 0}

\* The price levels one frame carries for one side.
LevelUpdates ==
  {<<>>} \cup {<<[price |-> p, size |-> z]>> : p \in Prices, z \in Sizes}

\* update_order_book 47-87 on well-formed levels: size 0 removes the level.
UpdateOrderBook(side, updates) ==
  LET RECURSIVE Apply(_, _)
      Apply(ob, us) ==
        IF us = <<>> THEN ob
        ELSE Apply([ob EXCEPT ![Head(us).price] = Head(us).size], Tail(us))
  IN  Apply(side, updates)

SetMax(S) == CHOOSE x \in S : \A y \in S : y <= x
SetMin(S) == CHOOSE x \in S : \A y \in S : x <= y

\* validate_order_book_integrity 134-153.
ValidateOrderBookIntegrity(book) ==
  \/ Levels(book.bids) = {}
  \/ Levels(book.asks) = {}
  \/ SetMax(Levels(book.bids)) < SetMin(Levels(book.asks))

\* validate_order_book_offset 89-111: what it returns and what it leaves in
\* order_book_offset and order_book_sequence_gap.
ValidateOrderBookOffset(cur, gap, new_offset) ==
  IF cur = None
  THEN [valid |-> TRUE, offset |-> new_offset, gap |-> gap]
  ELSE IF new_offset = cur + 1
  THEN [valid |-> TRUE, offset |-> new_offset, gap |-> FALSE]
  ELSE IF new_offset > cur + 1
  THEN [valid |-> FALSE, offset |-> cur, gap |-> TRUE]
  ELSE [valid |-> TRUE, offset |-> cur, gap |-> gap]

\* get_best_levels 177-195: the best level of a side among those of at least
\* MinNotional, None when there is none.
Qualifying(side) == {p \in Levels(side) : side[p] * p >= MinNotional}
BestBidLevel(book) ==
  IF Qualifying(book.bids) = {} THEN None ELSE SetMax(Qualifying(book.bids))
BestAskLevel(book) ==
  IF Qualifying(book.asks) = {} THEN None ELSE SetMin(Qualifying(book.asks))

\* The n highest (bids) or n lowest (asks) prices of a set of levels.
HighestN(S, n) ==
  LET RECURSIVE Take(_, _)
      Take(T, k) == IF k = 0 \/ T = {} THEN {}
                    ELSE {SetMax(T)} \cup Take(T \ {SetMax(T)}, k - 1)
  IN  Take(S, n)
LowestN(S, n) ==
  LET RECURSIVE Take(_, _)
      Take(T, k) == IF k = 0 \/ T = {} THEN {}
                    ELSE {SetMin(T)} \cup Take(T \ {SetMin(T)}, k - 1)
  IN  Take(S, n)

\* cleanup_old_order_book_levels 197-218 keeping n levels a side.
CleanupOldOrderBookLevels(book, n) ==
  [bids |-> IF Cardinality(Levels(book.bids)) > n
            THEN [p \in Prices |-> IF p \in HighestN(Levels(book.bids), n)
                                   THEN book.bids[p] ELSE 0]
            ELSE book.bids,
   asks |-> IF Cardinality(Levels(book.asks)) > n
            THEN [p \in Prices |-> IF p \in LowestN(Levels(book.asks), n)
                                   THEN book.asks[p] ELSE 0]
            ELSE book.asks]

\* lighter.py 234-250, the body of fetch_bbo_prices on the manager's best_bid and
\* best_ask: the pair, or the ValueError it raises.
BboFailure == [ok |-> FALSE, bid |-> None, ask |-> None]
FetchBboPrices(bid, ask) ==
  IF bid # None /\ ask # None
  THEN IF bid <= 0 \/ ask <= 0 \/ bid >= ask
       THEN BboFailure
       ELSE [ok |-> TRUE, bid |-> bid, ask |-> ask]
  ELSE BboFailure

\* request_fresh_snapshot 161-170.
FreshSnapshotFrames == <<"unsubscribe", "subscribe">>

\* __init__ 20-30, and connect() about to start.
\* connect() 422.
NextDelay(delay) ==
  IF delay * 2 < max_reconnect_delay THEN delay * 2 ELSE max_reconnect_delay

BookInit ==
  /\ order_book = EmptyBook
  /\ best_bid = None
  /\ best_ask = None
  /\ snapshot_loaded = FALSE
  /\ order_book_offset = None
  /\ order_book_sequence_gap = FALSE
  /\ running = FALSE
  /\ ws = "closed"
  /\ ws_pc = "reset"
  /\ order_book_lock = FALSE
  /\ sent = <<>>
  /\ gap_pending = FALSE
  /\ disconnect_called = FALSE
  /\ reconnect_delay = 1
  /\ slept = 0

\* ------------------------------------ Lighter order-update memo: data

MemoIds == 1..MaxMemoIds
NoMemo == [status |-> "NONE", filled_size |-> 0]
NoCurrentOrder == [order_id |-> None, order_type |-> "NONE", status |-> "NONE", filled_size |-> 0]

\* One element of the list handle_order_update passes on (market_index being the
\* engine's contract). PENDING stands for any status other than the three named.
LighterUpdates ==
  [order_index : MemoIds, client_order_index : MemoIds, order_type : {"OPEN", "CLOSE"},
   status : {"OPEN", "FILLED", "CANCELED", "PENDING"}, filled_size : 0..MaxFilled]

\* lighter.py 195-199: the duplicate OPEN that the loop skips with continue.
LighterSuppressed(cache, u) ==
  /\ cache[u.order_index] # NoMemo
  /\ cache[u.order_index].status = "OPEN"
  /\ u.status = "OPEN"
  /\ u.filled_size = cache[u.order_index].filled_size

\* A memo that records terminal statuses instead of deleting the entry.
MemoNeverEvicts(cache, u) ==
  IF LighterSuppressed(cache, u) THEN cache
  ELSE IF cache[u.order_index] # NoMemo \/ u.status = "OPEN"
  THEN [cache EXCEPT ![u.order_index] = [status |-> u.status, filled_size |-> u.filled_size]]
  ELSE cache

\* lighter.py 195-206: orders_cache after one update.
MemoAfter(cache, u) ==
  IF cache[u.order_index] # NoMemo
  THEN IF LighterSuppressed(cache, u) THEN cache
       ELSE IF u.status \in {"FILLED", "CANCELED"}
       THEN [cache EXCEPT ![u.order_index] = NoMemo]
       ELSE [cache EXCEPT ![u.order_index] =
               [status |-> u.status, filled_size |-> u.filled_size]]
  ELSE IF u.status = "OPEN"
  THEN [cache EXCEPT ![u.order_index] = [status |-> u.status, filled_size |-> u.filled_size]]
  ELSE cache

\* lighter.py 208-229: current_order after one update.
CurrentOrderAfter(cache, cur, client_id, u) ==
  IF LighterSuppressed(cache, u) THEN cur
  ELSE IF u.client_order_index = client_id \/ u.order_type = "OPEN"
  THEN [order_id |-> u.order_index, order_type |-> u.order_type,
        status |-> IF u.status = "OPEN" /\ u.filled_size > 0
                   THEN "PARTIALLY_FILLED" ELSE u.status,
        filled_size |-> u.filled_size]
  ELSE cur

\* lighter.py 59-61.
MemoInit ==
  /\ orders_cache = [i \in MemoIds |-> NoMemo]
  /\ current_order = NoCurrentOrder
  /\ current_order_client_id = None

\* ------------------------------------------ the close order's price: data

\* trading_bot.py 246-249 and 345-348.
TakeProfitPrice(filled_price, close_side, take_profit) ==
  IF close_side = "sell"
  THEN (filled_price * (100 + take_profit)) \div 100
  ELSE (filled_price * (100 - take_profit)) \div 100

\* _handle_order_result 232-252 (the open order filled) and 333-353 (cancelled
\* with a partial fill): the call the engine makes and its price argument.
EngineCloseCall(r) ==
  IF r.fill = "full"
  THEN IF r.boost_mode
       THEN [kind |-> "market", price |-> None]
       ELSE [kind |-> "limit",
             price |-> TakeProfitPrice(r.filled_price, r.close_side, r.take_profit)]
  ELSE IF r.boost_mode
       THEN [kind |-> "limit", price |-> r.filled_price]
       ELSE [kind |-> "limit",
             price |-> TakeProfitPrice(r.filled_price, r.close_side, r.take_profit)]

\* grvt.py 373-381: the maker adjustment of place_close_order.
AdjustedPrice(price, side, bid, ask) ==
  IF side = "sell" /\ price <= bid THEN bid + tick_size
  ELSE IF side = "buy" /\ price >= ask THEN ask - tick_size
  ELSE price

NoCloseRequest ==
  [adapter |-> "grvt", boost_mode |-> FALSE, close_side |-> "sell", take_profit |-> 1, filled_price |-> PriceUnit,
   fill |-> "none", best_bid |-> None, best_ask |-> None]
NoCloseResult == [kind |-> "none", price |-> None, adjusted_price |-> None]

\* grvt.py 285-296 and 314-324: the maker price of an open order.
GrvtOrderPrice(direction, bid, ask) ==
  IF direction = "buy" THEN ask - tick_size ELSE bid + tick_size

RECURSIVE LighterOrderPrice(_, _, _)
\* lighter.py 364-382 (used by place_open_order, 310): the mid price, kept one
\* tick clear of every active close order.
LighterOrderPrice(side, order_price, closes) ==
  IF closes = {} THEN order_price
  ELSE LET c == CHOOSE x \in closes : TRUE IN
         LighterOrderPrice(side,
                           IF side = "buy"
                           THEN (IF order_price < c - tick_size THEN order_price
                                 ELSE c - tick_size)
                           ELSE (IF order_price > c + tick_size THEN order_price
                                 ELSE c + tick_size),
                           closes \ {c})

\* The price place_open_order submits at, from the BBO it has fetched.
OpenOrderPrice(q, bid, ask) ==
  IF q.adapter = "lighter"
  THEN LighterOrderPrice(q.direction, (bid + ask) \div 2, q.closes)
  ELSE GrvtOrderPrice(q.direction, bid, ask)

NoOpenQuote ==
  [adapter |-> "grvt", direction |-> "buy", closes |-> {}, best_bid |-> None,
   best_ask |-> None, price |-> None, status |-> "NONE"]

PriceIdle ==
  /\ close_request = NoCloseRequest
  /\ close_order_result = NoCloseResult
  /\ open_quote = NoOpenQuote

\* ------------------------------------------------ ExchangeFactory: data

\* Venue names are strings over letters in both cases.
Letters == {"a", "A", "b", "B"}
Names == UNION {[1..n -> Letters] : n \in 1..MaxNameLen}

ToLower(ch) == IF ch = "A" THEN "a" ELSE IF ch = "B" THEN "b" ELSE ch

\* A factory that looks names up as they are written.
AsWritten(name) == name

\* str.lower() of factory.py 35 and 97.
Lower(name) == [i \in 1..Len(name) |-> ToLower(name[i])]

NoClass == "none"

\* The classes handed to register_exchange: the path it derives (93-95) and
\* whether issubclass(exchange_class, BaseExchangeClient) holds (89).
ExchangeClasses == [path : {"exchanges.y.YClient"}, is_adapter : BOOLEAN]

NoFactoryCall == [op |-> "none", ok |-> TRUE, path |-> NoClass]

\* factory.py 12-19: the built-in venues, all lower-case; one name stands for them.
BuiltIn == <<"a">>

FactoryInit ==
  /\ registered_exchanges =
       [n \in Names |-> IF n = BuiltIn THEN "exchanges.x.XClient" ELSE NoClass]
  /\ factory_result = NoFactoryCall

\* ------------------------------------------ the stop and pause prices: data

\* A gate that measures the step from the farthest close order.
MeetGridStepFarthest(g) ==
  IF g.closes = {} THEN [raised |-> FALSE, meet |-> TRUE]
  ELSE IF g.best_bid <= 0 \/ g.best_ask <= 0 \/ g.best_bid >= g.best_ask
  THEN [raised |-> TRUE, meet |-> FALSE]
  ELSE IF g.direction = "buy"
  THEN [raised |-> FALSE,
        meet |-> SetMax(g.closes) * 100 * 100
                   > g.best_ask * (100 + g.take_profit) * (100 + g.grid_step)]
  ELSE [raised |-> FALSE,
        meet |-> g.best_bid * (100 - g.take_profit) * 100
                   > SetMin(g.closes) * 100 * (100 + g.grid_step)]

\* _meet_grid_step_condition 428-453; a / b > c with b > 0 is a > b * c, the
\* percentages multiplied out.
MeetGridStepCondition(g) ==
  IF g.closes = {} THEN [raised |-> FALSE, meet |-> TRUE]
  ELSE IF g.best_bid <= 0 \/ g.best_ask <= 0 \/ g.best_bid >= g.best_ask
  THEN [raised |-> TRUE, meet |-> FALSE]
  ELSE LET next_close_price == IF g.direction = "buy" THEN SetMin(g.closes)
                               ELSE SetMax(g.closes)
       IN IF g.direction = "buy"
          THEN [raised |-> FALSE,
                meet |-> next_close_price * 100 * 100
                           > g.best_ask * (100 + g.take_profit) * (100 + g.grid_step)]
          ELSE [raised |-> FALSE,
                meet |-> g.best_bid * (100 - g.take_profit) * 100
                           > next_close_price * 100 * (100 + g.grid_step)]

Disabled == 0 - 1                    \* a stop_price or pause_price of -1

\* A check that compares the stop price strictly.
CheckPriceStrictStop(c) ==
  IF c.pause_price = Disabled /\ c.stop_price = Disabled
  THEN [raised |-> FALSE, stop_trading |-> FALSE, pause_trading |-> FALSE]
  ELSE IF c.best_bid <= 0 \/ c.best_ask <= 0 \/ c.best_bid >= c.best_ask
  THEN [raised |-> TRUE, stop_trading |-> FALSE, pause_trading |-> FALSE]
  ELSE [raised |-> FALSE,
        stop_trading |->
          /\ c.stop_price # Disabled
          /\ IF c.direction = "buy" THEN c.best_ask > c.stop_price
             ELSE c.best_bid < c.stop_price,
        pause_trading |->
          /\ c.pause_price # Disabled
          /\ IF c.direction = "buy" THEN c.best_ask >= c.pause_price
             ELSE c.best_bid <= c.pause_price]

\* _check_price_condition 455-482 on one BBO read: the pair it returns, or the
\* ValueError it raises.  With both thresholds disabled the BBO is not read.
CheckPriceCondition(c) ==
  IF c.pause_price = Disabled /\ c.stop_price = Disabled
  THEN [raised |-> FALSE, stop_trading |-> FALSE, pause_trading |-> FALSE]
  ELSE IF c.best_bid <= 0 \/ c.best_ask <= 0 \/ c.best_bid >= c.best_ask
  THEN [raised |-> TRUE, stop_trading |-> FALSE, pause_trading |-> FALSE]
  ELSE [raised |-> FALSE,
        stop_trading |->
          /\ c.stop_price # Disabled
          /\ IF c.direction = "buy" THEN c.best_ask >= c.stop_price
             ELSE c.best_bid <= c.stop_price,
        pause_trading |->
          /\ c.pause_price # Disabled
          /\ IF c.direction = "buy" THEN c.best_ask >= c.pause_price
             ELSE c.best_bid <= c.pause_price]

NoPriceCheck ==
  [direction |-> "buy", stop_price |-> Disabled, pause_price |-> Disabled,
   best_bid |-> 0, best_ask |-> 0]

TickIdle == price_check = NoPriceCheck

\* The account of Spec: the GRVT adapter; the position is an input of the check.
StatusIdle ==
  /\ exchange = "grvt"
  /\ venue_position = 0

\* The engine keeps nothing across restarts: the venue may already hold close
\* orders of an earlier run, at most max_orders of them.
Init ==
  /\ EngineInit
  /\ \E k \in 0..max_orders : orders = InitialOrders(k)
  /\ StatusIdle
  /\ BookInit
  /\ MemoInit
  /\ FactoryInit
  /\ GateIdle
  /\ CallbackIdle
  /\ TickIdle
  /\ PriceIdle

\* A first run: the venue holds no order of the account.  One timed-out poll,
\* failed cancel or failed query is allowed for.
FreshInit ==
  /\ pc = "loop"
  /\ shutdown_requested = FALSE
  /\ active_close_orders = {}
  /\ close_orders_timestamps = {}
  /\ last_close_orders = 0
  /\ last_log_time = 0
  /\ mismatch_detected = "None"
  /\ order_filled_amount = 0
  /\ order_filled_event = FALSE
  /\ order_canceled_event = FALSE
  /\ order_result = NoResult
  /\ attempt = 0
  /\ close_base = 0
  /\ close_qty = 0
  /\ disconnects = <<>>
  /\ cycle_close_sum = 0
  /\ events = <<>>
  /\ faults = MaxFaults - 1
  /\ cycle_open_filled = 0
  /\ orders = InitialOrders(0)
  /\ StatusIdle
  /\ BookInit
  /\ MemoInit
  /\ FactoryInit
  /\ GateIdle
  /\ CallbackIdle
  /\ TickIdle
  /\ PriceIdle

\* ------------------------------------------------ run(): one tick

\* run() 594-615: the loop test, then the reconciliation against the venue; the
\* loop left, the finally clause (659-664) and the return.
LoopTop ==
  /\ Settled
  /\ pc = "loop"
  /\ IF shutdown_requested
     THEN /\ pc' = "done"
          /\ disconnects' = Finally(disconnects, shutdown_requested)
          /\ UNCHANGED <<active_close_orders, close_orders_timestamps>>
     ELSE /\ active_close_orders' = CloseOrdersOf(orders)
          /\ UNCHANGED disconnects
          /\ close_orders_timestamps' =
               ReconcileTimestamps(close_orders_timestamps,
                                   {o.id : o \in CloseOrdersOf(orders)})
          /\ pc' = "status"
  /\ UNCHANGED <<shutdown_requested, last_close_orders, last_log_time, mismatch_detected,
                 handlerVars, cycleLocals, worldVars>>
  /\ UNCHANGED outsideEngine

\* run() 654-658: an exception that leaves the loop (a query that raises after its
\* retries, an invalid BBO in _check_price_condition or _meet_grid_step_condition):
\* graceful_shutdown, re-raise.  The grid gate reads the BBO only when there is a
\* close order (429-436).
RunRaises ==
  /\ Settled
  /\ pc \in {"loop", "price", "grid"}
  /\ ~(pc = "loop" /\ shutdown_requested)
  /\ pc = "grid" => active_close_orders # {}
  /\ pc' = "done"
  /\ shutdown_requested' = TRUE
  /\ disconnects' = Finally(GracefulShutdown(disconnects), TRUE)
  /\ UNCHANGED <<loopVars, handlerVars, cycleLocals, worldVars>>
  /\ UNCHANGED outsideEngine

\* _log_status_periodically 371: not due yet.
LogStatusThrottled ==
  /\ Settled
  /\ pc = "status"
  /\ last_log_time # 0
  /\ mismatch_detected' = "None"
  /\ pc' = "price"
  /\ UNCHANGED <<shutdown_requested, active_close_orders, close_orders_timestamps,
                 last_close_orders, last_log_time, handlerVars, cycleLocals, worldVars>>
  /\ UNCHANGED <<disconnects, outsideEngine>>

\* _log_status_periodically 375-420: rebuild active_close_orders, read the position,
\* compare.
LogStatusChecked ==
  /\ Settled
  /\ pc = "status"
  /\ active_close_orders' = CloseOrdersOf(orders)
  /\ last_log_time' = 1
  /\ \E raw \in 0..MaxPosition :
       IF StatusOutcome("grvt", raw, CloseOrdersOf(orders))
       THEN shutdown_requested' = TRUE /\ mismatch_detected' = "True"
       ELSE shutdown_requested' = shutdown_requested /\ mismatch_detected' = "False"
  /\ pc' = "price"
  /\ UNCHANGED <<close_orders_timestamps, last_close_orders, handlerVars, cycleLocals,
                 worldVars>>
  /\ UNCHANGED <<disconnects, outsideEngine>>

\* _log_status_periodically 422-426: get_active_orders (375) or
\* get_account_positions (388) raised; the handler logs and the function returns
\* None. The notification sinks log their own failures (telegram_bot.py 46-56).
LogStatusRaises ==
  /\ Settled
  /\ pc = "status"
  /\ \E raised_at \in {375, 388} :
       active_close_orders' = IF raised_at > 375 THEN CloseOrdersOf(orders)
                              ELSE active_close_orders
  /\ mismatch_detected' = "None"
  /\ pc' = "price"
  /\ UNCHANGED <<shutdown_requested, close_orders_timestamps, last_close_orders,
                 last_log_time, handlerVars, cycleLocals, worldVars>>
  /\ UNCHANGED <<disconnects, outsideEngine>>

\* run() 623-649 up to the cool-down, for the pair _check_price_condition
\* returned: stop wins over pause; then the mismatch guard.  The local
\* mismatch_detected is dead from here to the next tick.
CheckPriceWith(stop_trading, pause_trading) ==
  /\ Settled
  /\ pc = "price"
  /\ IF stop_trading
     THEN /\ shutdown_requested' = TRUE          \* graceful_shutdown, continue
          /\ disconnects' = GracefulShutdown(disconnects)
          /\ pc' = "loop"
     ELSE /\ shutdown_requested' = shutdown_requested
          /\ UNCHANGED disconnects
          /\ pc' = IF pause_trading THEN "loop"
                   ELSE IF ProceedToOpen(mismatch_detected) THEN "wait" ELSE "loop"
  /\ mismatch_detected' = "None"
  /\ UNCHANGED <<active_close_orders, close_orders_timestamps, last_close_orders,
                 last_log_time, handlerVars, cycleLocals, worldVars>>
  /\ UNCHANGED outsideEngine

\* The prices being abstracted in Spec, the pair is an input of the tick.
CheckPrice ==
  \E stop_trading \in BOOLEAN, pause_trading \in BOOLEAN :
    CheckPriceWith(stop_trading, pause_trading)

\* run() 637-641 with _calculate_wait_time 163-191.
CalcWait ==
  /\ Settled
  /\ pc = "wait"
  /\ \E elapsed \in BOOLEAN :
       pc' = IF CalculateWaitTime(Cardinality(active_close_orders), last_close_orders,
                                  elapsed) > 0
             THEN "loop" ELSE "grid"
  /\ last_close_orders' = Cardinality(active_close_orders)
  /\ UNCHANGED <<shutdown_requested, active_close_orders, close_orders_timestamps,
                 last_log_time, mismatch_detected, handlerVars, cycleLocals, worldVars>>
  /\ UNCHANGED <<disconnects, outsideEngine>>

\* run() 643-648 with _meet_grid_step_condition 428-453: no close order, no gate.
GridGateWith(gate) ==
  /\ Settled
  /\ pc = "grid"
  /\ pc' = IF active_close_orders = {} \/ gate THEN "cycle" ELSE "loop"
  /\ UNCHANGED <<shutdown_requested, loopVars, handlerVars, cycleLocals, worldVars>>
  /\ UNCHANGED <<disconnects, outsideEngine>>

GridGate == \E gate \in BOOLEAN : GridGateWith(gate)

\* ------------------------------------------------ the open cycle

\* _place_and_monitor_open_order 196-199 and place_open_order 300.
CycleStart ==
  /\ Settled
  /\ pc = "cycle"
  /\ order_filled_event' = FALSE
  /\ order_filled_amount' = 0
  /\ order_result' = NoResult
  /\ attempt' = 0
  /\ pc' = "open_attempt"
  /\ UNCHANGED <<shutdown_requested, loopVars, order_canceled_event, close_base,
                 close_qty, worldVars>>
  /\ UNCHANGED <<disconnects, outsideEngine>>

\* _place_and_monitor_open_order 222-225: any exception inside the cycle is logged
\* and the cycle returns False.  Raised by a query that fails after its retries
\* (fetch_bbo_prices in place_open_order / place_close_order / get_order_price,
\* get_order_info, get_active_orders).
CycleRaises ==
  /\ Settled
  /\ pc \in {"open_attempt", "close_attempt", "stale", "cancel_wait"}
  /\ faults < MaxFaults
  /\ faults' = faults + 1
  /\ pc' = "cycle_end"
  /\ attempt' = 0
  /\ close_base' = 0
  /\ close_qty' = 0
  /\ orders' = Forget(orders, {})
  /\ UNCHANGED <<shutdown_requested, loopVars, handlerVars, order_result, historyVars,
                 events>>
  /\ UNCHANGED <<disconnects, outsideEngine>>

\* place_post_only_order 256-283: the status the poll ends with.  PENDING is the
\* order not processed within 10 s: place_post_only_order raises.
PlaceOutcomes == {"PENDING", "REJECTED", "CANCELLED", "OPEN", "FILLED"}

\* The venue's record of an order placed with that outcome.
Placed(kind, size, st) ==
  [kind |-> kind, status |-> st, size |-> size, filled |-> IF st = "FILLED" THEN size ELSE 0]

\* A placement loop without the duplicate-order guard.
OpenGuardNever(att, ords) == FALSE

\* grvt.py 303-312: the duplicate-order guard of every fifth attempt.
OpenGuardTrips(att, ords) ==
  att % AttemptCheckEvery = 0 /\ Cardinality(ActiveOpenOrders(ords)) > 1

\* place_open_order 301-352, one iteration: the guard, the BBO, the placement and
\* its poll.  A timed-out or REJECTED order is retried (331-333, 338-339); the
\* timed-out one stays with the venue.
OpenAttempt ==
  /\ Settled
  /\ pc = "open_attempt"
  /\ IF OpenGuardTrips(attempt + 1, orders)
     THEN /\ pc' = "cycle_end"                   \* raise, caught at 222
          /\ attempt' = 0
          /\ UNCHANGED <<order_result, venueVars, faults, cycle_open_filled>>
     ELSE \E bbo_valid \in BOOLEAN :
       IF ~bbo_valid
       THEN /\ pc' = "cycle_end"                 \* OrderResult(success=False)
            /\ attempt' = 0
            /\ UNCHANGED <<order_result, venueVars, faults, cycle_open_filled>>
       ELSE \E st \in PlaceOutcomes :
            LET o == Placed("open", Quantity, st) IN
              /\ FreeIds # {}
              /\ st = "PENDING" => faults < MaxFaults
              /\ faults' = IF st = "PENDING" THEN faults + 1 ELSE faults
              /\ events' = Emit(events, o)
              /\ orders' = IF st \in {"REJECTED", "CANCELLED"} THEN orders
                           ELSE [orders EXCEPT ![NewId] = o]
              /\ IF st \in {"OPEN", "FILLED"}
                 THEN /\ order_result' = [order_id |-> NewId, status |-> st]
                      /\ cycle_open_filled' = o.filled
                      /\ attempt' = 0
                      /\ pc' = "handle"
                 ELSE /\ attempt' = IF st = "CANCELLED" THEN 0
                                    ELSE (attempt + 1) % AttemptCheckEvery
                      /\ pc' = IF st = "CANCELLED" THEN "cycle_end" ELSE "open_attempt"
                      /\ UNCHANGED <<order_result, cycle_open_filled>>
  /\ UNCHANGED <<shutdown_requested, loopVars, handlerVars, close_base, close_qty,
                 cycle_close_sum>>
  /\ UNCHANGED <<disconnects, outsideEngine>>

\* _place_and_monitor_open_order 211-220 (the wait for order_filled_event ends by
\* the event or by its 10 s timeout) and _handle_order_result 229-232, 267-280.
Handle ==
  /\ Settled
  /\ pc = "handle"
  /\ IF order_filled_event \/ order_result.status = "FILLED"
     THEN \* place_close_order 357-358
          /\ close_qty' = Quantity
          /\ close_base' = ActiveCloseCount(orders)
          /\ orders' = Forget(orders, {})
          /\ pc' = "close_attempt"
     ELSE /\ pc' = "stale"
          /\ UNCHANGED <<close_qty, close_base, orders>>
  /\ UNCHANGED <<shutdown_requested, loopVars, handlerVars, order_result, attempt,
                 events, faults, historyVars>>
  /\ UNCHANGED <<disconnects, outsideEngine>>

\* A loop that re-waits only while the maker price is strictly better.
ShouldWaitStrict(direction, new_order_price, order_result_price) ==
  IF direction = "buy" THEN new_order_price < order_result_price
  ELSE new_order_price > order_result_price

\* _handle_order_result 269-274.
ShouldWait(direction, new_order_price, order_result_price) ==
  IF direction = "buy" THEN new_order_price <= order_result_price
  ELSE IF direction = "sell" THEN new_order_price >= order_result_price
  ELSE FALSE

\* _handle_order_result 267-293, one test of the loop for a direction, the maker
\* price just read and the open order's price: wait again (5 s) while
\* should_wait holds and the order is still OPEN, else go on to cancel it.
StaleWith(direction, new_order_price, order_result_price) ==
  /\ Settled
  /\ pc = "stale"
  /\ pc' = IF /\ ShouldWait(direction, new_order_price, order_result_price)
              /\ orders[order_result.order_id].status = "OPEN"
           THEN "stale" ELSE "cancel"
  /\ UNCHANGED <<shutdown_requested, loopVars, handlerVars, cycleLocals, worldVars>>
  /\ UNCHANGED <<disconnects, outsideEngine>>

\* The prices being abstracted in Spec, they are inputs of the test.
Stale ==
  \E direction \in {"buy", "sell"}, new_order_price \in 1..MaxTickPrice,
     order_result_price \in 1..MaxTickPrice :
    StaleWith(direction, new_order_price, order_result_price)

\* _handle_order_result 295-320 with grvt.py cancel_order 409-421.  The venue
\* cancels a resting order and reports it on the stream, or answers for an order
\* that is already terminal, or the request fails and the order is left as it is.
Cancel ==
  /\ Settled
  /\ pc = "cancel"
  /\ LET id == order_result.order_id IN
     \/ /\ orders[id].status = "OPEN"            \* success, order cancelled
        /\ CanEmit([orders[id] EXCEPT !.status = "CANCELLED"])
        /\ orders' = [orders EXCEPT ![id].status = "CANCELLED"]
        /\ events' = Emit(events, orders'[id])
        /\ order_canceled_event' = FALSE
        /\ pc' = "cancel_wait"
        /\ UNCHANGED faults
     \/ /\ orders[id].status # "OPEN"            \* success, nothing left to cancel
        /\ order_canceled_event' = FALSE
        /\ pc' = "cancel_wait"
        /\ UNCHANGED <<venueVars, faults>>
     \/ /\ faults < MaxFaults                    \* success=False or an exception
        /\ faults' = faults + 1
        /\ order_canceled_event' = TRUE
        /\ pc' = "post_cancel"
        /\ orders' = Forget(orders, {})
        /\ UNCHANGED events
  /\ UNCHANGED <<shutdown_requested, loopVars, order_filled_amount, order_filled_event,
                 cycleLocals, historyVars>>
  /\ UNCHANGED <<disconnects, outsideEngine>>

\* _handle_order_result 326-331: the wait ends by order_canceled_event, or by its
\* 5 s timeout and then get_order_info supplies the filled size.
CancelWait ==
  /\ Settled
  /\ pc = "cancel_wait"
  /\ order_filled_amount' = IF order_canceled_event THEN order_filled_amount
                            ELSE orders[order_result.order_id].filled
  /\ orders' = Forget(orders, {})
  /\ pc' = "post_cancel"
  /\ UNCHANGED <<shutdown_requested, loopVars, order_filled_event, order_canceled_event,
                 cycleLocals, events, faults, historyVars>>
  /\ UNCHANGED <<disconnects, outsideEngine>>

\* _handle_order_result 333-365, up to the call of place_close_order (357-358 of grvt.py).
PostCancel ==
  /\ Settled
  /\ pc = "post_cancel"
  /\ IF order_filled_amount > 0
     THEN /\ close_qty' = order_filled_amount
          /\ close_base' = ActiveCloseCount(orders)
          /\ pc' = "close_attempt"
     ELSE /\ pc' = "cycle_end"
          /\ UNCHANGED <<close_qty, close_base>>
  /\ UNCHANGED <<shutdown_requested, loopVars, handlerVars, order_result, attempt,
                 worldVars>>
  /\ UNCHANGED <<disconnects, outsideEngine>>

\* grvt.py 361-371: the abnormal-growth guard of every fifth attempt.
CloseGuardTrips(att, base, ords) ==
  att % AttemptCheckEvery = 0 /\ ActiveCloseCount(ords) - base > 1

\* place_close_order 359-407, one iteration, and the engine's bookkeeping of a
\* placed close order (trading_bot.py 256-264, 358-365).
CloseAttempt ==
  /\ Settled
  /\ pc = "close_attempt"
  /\ IF CloseGuardTrips(attempt + 1, close_base, orders)
     THEN /\ pc' = "cycle_end"                   \* raise, caught at 222
          /\ attempt' = 0
          /\ close_base' = 0
          /\ close_qty' = 0
          /\ UNCHANGED <<close_orders_timestamps, venueVars, faults, cycle_close_sum>>
     ELSE \E st \in PlaceOutcomes :
          LET o == Placed("close", close_qty, st) IN
            /\ FreeIds # {}
            /\ st = "PENDING" => faults < MaxFaults
            /\ faults' = IF st = "PENDING" THEN faults + 1 ELSE faults
            /\ events' = Emit(events, o)
            /\ orders' = IF st \in {"PENDING", "OPEN"} THEN [orders EXCEPT ![NewId] = o]
                         ELSE orders
            /\ IF st \in {"PENDING", "REJECTED"}
               THEN /\ attempt' = (attempt + 1) % AttemptCheckEvery
                    /\ close_base' = IF (attempt + 1) % AttemptCheckEvery = 0
                                     THEN ActiveCloseCount(orders) ELSE close_base
                    /\ pc' = "close_attempt"
                    /\ UNCHANGED <<close_qty, close_orders_timestamps, cycle_close_sum>>
               ELSE /\ attempt' = 0
                    /\ close_base' = 0
                    /\ close_qty' = 0
                    /\ pc' = "cycle_end"
                    /\ close_orders_timestamps' =
                         IF st = "CANCELLED" THEN close_orders_timestamps
                         ELSE close_orders_timestamps \cup {NewId}
                    /\ cycle_close_sum' =
                         IF st = "CANCELLED" THEN cycle_close_sum
                         ELSE cycle_close_sum + close_qty
  /\ UNCHANGED <<shutdown_requested, active_close_orders, last_close_orders,
                 last_log_time, mismatch_detected, handlerVars, order_result,
                 cycle_open_filled>>
  /\ UNCHANGED <<disconnects, outsideEngine>>

\* run() 648-649: the cycle has returned; last_close_orders += 1.
CycleEnd ==
  /\ Settled
  /\ pc = "cycle_end"
  /\ last_close_orders' = last_close_orders + 1
  /\ order_result' = NoResult
  /\ cycle_close_sum' = 0
  /\ cycle_open_filled' = 0
  /\ pc' = "loop"
  /\ UNCHANGED <<shutdown_requested, active_close_orders, close_orders_timestamps,
                 last_log_time, mismatch_detected, handlerVars, attempt, close_base,
                 close_qty, venueVars, faults>>
  /\ UNCHANGED <<disconnects, outsideEngine>>

\* ------------------------------------------- order_update_handler

HandlerFields ==
  [amount |-> order_filled_amount, filled |-> order_filled_event,
   canceled |-> order_canceled_event]

\* trading_bot.py 104-158 on one canonical update.
DeliverEvent ==
  /\ events # <<>>
  /\ LET h == OrderUpdateHandler(HandlerFields, Head(events)) IN
       /\ order_filled_amount' = h.amount
       /\ order_filled_event' = h.filled
       /\ order_canceled_event' = h.canceled
  /\ events' = Tail(events)
  /\ UNCHANGED <<pc, shutdown_requested, loopVars, cycleLocals, orders, faults, historyVars>>
  /\ UNCHANGED <<disconnects, outsideEngine>>

\* ------------------------------------------------------------ venue

\* The venue processes an order a timed-out poll left PENDING: it rests (OPEN) or
\* is REJECTED (post-only).
VenueResolve ==
  \E i \in Ids, st \in {"OPEN", "REJECTED"} :
    /\ orders[i].status = "PENDING"
    /\ LET o == [orders[i] EXCEPT !.status = st] IN
         /\ CanEmit(o)
         /\ events' = Emit(events, o)
         /\ orders' = Forget([orders EXCEPT ![i] = o], Referenced)
    /\ UNCHANGED <<engineVars, faults, historyVars, outsideEngine>>

\* A resting order trades: the open order the cycle follows by any amount, any
\* other order whole (a partial fill of those reaches the handler as a
\* PARTIALLY_FILLED update, which it only logs).
VenueFill ==
  \E i \in Ids :
    /\ orders[i].status = "OPEN"
    /\ \E amt \in 1..(orders[i].size - orders[i].filled) :
         /\ (orders[i].kind = "close" \/ i \notin Referenced) =>
              amt = orders[i].size - orders[i].filled
         /\ LET f == orders[i].filled + amt
                o == [orders[i] EXCEPT !.filled = f,
                                       !.status = IF f = orders[i].size THEN "FILLED" ELSE "OPEN"]
            IN  /\ CanEmit(o)
                /\ events' = Emit(events, o)
                /\ orders' = Forget([orders EXCEPT ![i] = o], Referenced)
                /\ cycle_open_filled' =
                     IF i = order_result.order_id /\ orders[i].kind = "open"
                     THEN f ELSE cycle_open_filled
    /\ UNCHANGED <<engineVars, faults, cycle_close_sum, outsideEngine>>

\* -------------------------------------------------- specifications

EngineNext ==
  \/ LoopTop \/ RunRaises \/ LogStatusThrottled \/ LogStatusChecked \/ LogStatusRaises
  \/ CheckPrice \/ CalcWait \/ GridGate
  \/ CycleStart \/ CycleRaises \/ OpenAttempt \/ Handle \/ Stale
  \/ Cancel \/ CancelWait \/ PostCancel \/ CloseAttempt \/ CycleEnd

Next == EngineNext \/ DeliverEvent \/ VenueResolve \/ VenueFill

Spec == Init /\ [][Next]_vars

\* The engine's coroutine is scheduled whenever it can run, and so is the
\* stream's callback.
FairSpec == Spec /\ WF_vars(EngineNext) /\ WF_vars(DeliverEvent)

\* FairSpec with a venue that answers fairly: a placement that is retried is
\* eventually answered with something other than a rejection or a timeout.  The
\* re-wait of the stale-open loop (Stale back to "stale") changes nothing and is
\* a stuttering step, so the engine's fairness takes the loop to its exit.
FairVenueSpec ==
  /\ FreshInit
  /\ [][Next]_vars
  /\ WF_vars(EngineNext)
  /\ WF_vars(DeliverEvent)
  /\ SF_vars(OpenAttempt /\ pc' # "open_attempt")
  /\ SF_vars(CloseAttempt /\ pc' # "close_attempt")

\* run() 651-653 and 659-664: KeyboardInterrupt raised at any point of the try
\* block (the cycle's "except Exception" does not catch it): graceful_shutdown,
\* then the finally clause, then run() returns.
KeyboardInterrupt ==
  /\ pc # "done"
  /\ pc' = "done"
  /\ shutdown_requested' = TRUE
  /\ disconnects' = Finally(GracefulShutdown(disconnects), TRUE)
  /\ UNCHANGED <<loopVars, handlerVars, cycleLocals, worldVars>>
  /\ UNCHANGED outsideEngine

\* The engine with the operator's Ctrl-C.
SpecRun == Init /\ [][Next \/ KeyboardInterrupt]_vars

\* ------------------------------------------------ the factory alone

outsideFactory ==
  <<engineVars, venueVars, faults, historyVars, statusVars, bookVars, memoVars, priceVars,
    tickVars, gateVars, callbackVars>>

\* create_exchange 21-44: the lookup under the lower-cased name; the class path
\* found, or ValueError.
CreateExchange(exchange_name) ==
  /\ factory_result' =
       IF registered_exchanges[Lower(exchange_name)] = NoClass
       THEN [op |-> "create", ok |-> FALSE, path |-> NoClass]
       ELSE [op |-> "create", ok |-> TRUE, path |-> registered_exchanges[Lower(exchange_name)]]
  /\ UNCHANGED <<registered_exchanges, outsideFactory>>

\* register_exchange 81-97.
RegisterExchange(name, exchange_class) ==
  /\ IF ~exchange_class.is_adapter
     THEN /\ factory_result' = [op |-> "register", ok |-> FALSE, path |-> NoClass]
          /\ UNCHANGED registered_exchanges
     ELSE /\ registered_exchanges' =
               [registered_exchanges EXCEPT ![Lower(name)] = exchange_class.path]
          /\ factory_result' = [op |-> "register", ok |-> TRUE, path |-> exchange_class.path]
  /\ UNCHANGED outsideFactory

FactoryCreate == \E exchange_name \in Names : CreateExchange(exchange_name)

FactoryRegister ==
  \E name \in Names, exchange_class \in ExchangeClasses : RegisterExchange(name, exchange_class)

FactorySpecInit ==
  /\ EngineInit
  /\ orders = InitialOrders(0)
  /\ StatusIdle
  /\ BookInit
  /\ MemoInit
  /\ FactoryInit
  /\ GateIdle
  /\ CallbackIdle
  /\ PriceIdle
  /\ TickIdle

SpecFactory == FactorySpecInit /\ [][FactoryCreate \/ FactoryRegister]_vars

\* ------------------------------------ one update through a stream callback

\* config.contract_id is "own".
Contracts == {"own", "other"}

\* A filter that lets every contract through.
AnyContract(contract_id) == TRUE

\* trading_bot.py 108, grvt.py 146-148, lighter.py 179-180.
OwnContract(contract_id) == contract_id = "own"

\* The state and the first leg of a GRVT order feed message.
GrvtMessages ==
  [status : {"PENDING", "OPEN", "FILLED", "CANCELLED", "REJECTED"},
   is_buying_asset : BOOLEAN, traded_size : 0..MaxFilled]

\* grvt.py 150-177: side, order_type and the mapped status.
GrvtCanonical(contract_id, m, close_order_side) ==
  LET side == IF m.is_buying_asset THEN "buy" ELSE "sell" IN
    [contract_id |-> contract_id,
     otype |-> IF side = close_order_side THEN "CLOSE" ELSE "OPEN",
     status |-> MappedStatus(m.status, m.traded_size),
     filled |-> m.traded_size]

\* grvt.py 141-192: what order_update_callback hands to the handler.
GrvtHandled(c) ==
  LET msg == GrvtCanonical(c.contract_id, c.message, c.close_order_side) IN
    IF OwnContract(c.contract_id) /\ Forwarded(msg.status) THEN msg ELSE NoMessage

\* order_update_handler 116-117.
HandlerStatus(status, m) == IF m.otype = "OPEN" THEN m.status ELSE status

\* The engine's fields a callback can find: as constructed, or as earlier updates
\* of open orders have left them.
HandlerStates ==
  [amount : 0..MaxFilled, filled : BOOLEAN, canceled : BOOLEAN,
   status : {"OPEN", "PARTIALLY_FILLED", "FILLED", "CANCELED"}]
  \cup {[amount |-> 0, filled |-> FALSE, canceled |-> FALSE, status |-> "None"]}

CallbackInit ==
  /\ pc = "loop"
  /\ shutdown_requested = FALSE
  /\ active_close_orders = {}
  /\ close_orders_timestamps = {}
  /\ last_close_orders = 0
  /\ last_log_time = 0
  /\ mismatch_detected = "None"
  /\ order_result = NoResult
  /\ attempt = 0
  /\ close_base = 0
  /\ close_qty = 0
  /\ disconnects = <<>>
  /\ cycle_close_sum = 0
  /\ cycle_open_filled = 0
  /\ events = <<>>
  /\ faults = 0
  /\ orders = InitialOrders(0)
  /\ StatusIdle
  /\ BookInit
  /\ FactoryInit
  /\ GateIdle
  /\ PriceIdle
  /\ TickIdle
  /\ \E h \in HandlerStates :
       /\ order_filled_amount = h.amount
       /\ order_filled_event = h.filled
       /\ order_canceled_event = h.canceled
       /\ current_order_status = h.status
       /\ \/ /\ MemoInit
             /\ callback_check \in
                  [adapter : {"grvt"}, contract_id : Contracts,
                   close_order_side : {"buy", "sell"}, message : GrvtMessages,
                   done : {FALSE}, handled : {NoMessage}]
          \/ /\ h.status \in {"None", "FILLED"}
             \* the Lighter adapter as constructed, or after a placement call and
             \* an OPEN update
             /\ \/ MemoInit
                \/ \E u \in {v \in LighterUpdates : v.status = "OPEN"} :
                     /\ current_order_client_id = u.client_order_index
                     /\ orders_cache = MemoAfter([i \in MemoIds |-> NoMemo], u)
                     /\ current_order =
                          CurrentOrderAfter([i \in MemoIds |-> NoMemo], NoCurrentOrder,
                                            u.client_order_index, u)
             /\ callback_check \in
                  [adapter : {"lighter"}, contract_id : Contracts,
                   close_order_side : {"none"}, message : LighterUpdates,
                   done : {FALSE}, handled : {NoMessage}]

\* grvt.py 134-204 on one feed message, with order_update_handler 104-158.
GrvtCallback ==
  /\ ~callback_check.done
  /\ callback_check.adapter = "grvt"
  /\ LET msg == GrvtHandled(callback_check) IN
       /\ callback_check' = [callback_check EXCEPT !.done = TRUE, !.handled = msg]
       /\ IF msg = NoMessage \/ ~OwnContract(msg.contract_id)
          THEN UNCHANGED <<handlerVars, current_order_status>>
          ELSE LET h == OrderUpdateHandler(HandlerFields, msg) IN
                 /\ order_filled_amount' = h.amount
                 /\ order_filled_event' = h.filled
                 /\ order_canceled_event' = h.canceled
                 /\ current_order_status' = HandlerStatus(current_order_status, msg)
  /\ UNCHANGED <<pc, shutdown_requested, loopVars, cycleLocals, worldVars, disconnects,
                 statusVars, bookVars, memoVars, priceVars, tickVars, factoryVars, gateVars>>

\* lighter.py 176-232 on one element of the list; the handler is not called.
LighterCallback ==
  /\ ~callback_check.done
  /\ callback_check.adapter = "lighter"
  /\ callback_check' = [callback_check EXCEPT !.done = TRUE]
  /\ IF ~OwnContract(callback_check.contract_id)
     THEN UNCHANGED <<orders_cache, current_order>>
     ELSE /\ orders_cache' = MemoAfter(orders_cache, callback_check.message)
          /\ current_order' =
               CurrentOrderAfter(orders_cache, current_order, current_order_client_id,
                                 callback_check.message)
  /\ UNCHANGED <<current_order_client_id, current_order_status, engineVars, venueVars,
                 faults, historyVars, statusVars, bookVars, priceVars, tickVars,
                 factoryVars, gateVars>>

SpecCallback == CallbackInit /\ [][GrvtCallback \/ LighterCallback]_vars

\* ------------------------------------ the grid gate of one tick alone

GridPrices == PriceUnit..(PriceUnit + MaxGridSpan)

\* The configurations, close orders and BBO reads of one tick: a side of the BBO
\* missing (0), the BBO crossed.
GridChecks ==
  [direction : {"buy", "sell"}, take_profit : 0..MaxTakeProfit,
   grid_step : 0..MaxGridStep, closes : SUBSET GridPrices,
   best_bid : {0} \cup GridPrices, best_ask : {0} \cup GridPrices]

\* run() has reached line 643 of a tick with the close orders it has read.
GridInit ==
  /\ \E k \in 0..2 :
       /\ orders = InitialOrders(k)
       /\ active_close_orders = CloseOrdersOf(orders)
       /\ close_orders_timestamps = {o.id : o \in CloseOrdersOf(orders)}
       /\ last_close_orders = k
       /\ grid_check \in {g \in GridChecks :
                            /\ Cardinality(g.closes) <= k
                            /\ g.closes = {} <=> k = 0}
  /\ pc = "grid"
  /\ shutdown_requested = FALSE
  /\ last_log_time = 0
  /\ mismatch_detected = "None"
  /\ order_filled_amount = 0
  /\ order_filled_event = FALSE
  /\ order_canceled_event = FALSE
  /\ order_result = NoResult
  /\ attempt = 0
  /\ close_base = 0
  /\ close_qty = 0
  /\ disconnects = <<>>
  /\ cycle_close_sum = 0
  /\ cycle_open_filled = 0
  /\ events = <<>>
  /\ faults = 0
  /\ StatusIdle
  /\ BookInit
  /\ MemoInit
  /\ FactoryInit
  /\ PriceIdle
  /\ TickIdle
  /\ wait_check = NoWaitCheck
  /\ OpenIdle
  /\ CallbackIdle

\* run() 643-648 and 654-664 with _meet_grid_step_condition 428-453.
GridTick ==
  /\ pc = "grid"
  /\ LET r == MeetGridStepCondition(grid_check) IN
       IF r.raised THEN RunRaises ELSE GridGateWith(r.meet)

SpecGrid == GridInit /\ [][GridTick]_vars

\* ------------------------------------ the cool-down of one tick alone

WaitInit ==
  /\ EngineInit
  /\ orders = InitialOrders(0)
  /\ StatusIdle
  /\ BookInit
  /\ MemoInit
  /\ FactoryInit
  /\ PriceIdle
  /\ TickIdle
  /\ \E cap \in 1..MaxCloseCount, wait_time \in 1..MaxWaitTime :
       wait_check = [NoWaitCheck EXCEPT !.max_orders = cap, !.wait_time = wait_time]
  /\ grid_check = NoGridCheck
  /\ OpenIdle
  /\ CallbackIdle

\* run() 636-649 at time now with n active close orders: the cool-down, then,
\* past it and past the grid gate, the cycle; a filled open order stamps
\* last_open_order_time (240, 357) and the cycle counts as a close order (649).
WaitTickAt(n, now, opened, filled) ==
  LET r == CalculateWaitTimeAt(wait_check, n, now) IN
    /\ now >= wait_check.now
    /\ wait_check' =
         [wait_check EXCEPT
            !.n = n, !.now = now, !.wait = r.wait,
            !.last_close_orders =
               IF r.wait = 0 /\ opened THEN r.last_close_orders + 1
               ELSE r.last_close_orders,
            !.last_open_order_time =
               IF r.wait = 0 /\ opened /\ filled THEN now ELSE r.last_open_order_time]
    /\ UNCHANGED <<engineVars, venueVars, faults, historyVars, statusVars, bookVars,
                   memoVars, priceVars, tickVars, factoryVars, grid_check, openVars,
                   callbackVars>>

WaitTick ==
  \E n \in 0..MaxCloseCount, now \in ClockStart..(ClockStart + MaxNow),
     opened \in BOOLEAN, filled \in BOOLEAN :
    WaitTickAt(n, now, opened, filled)

SpecWait == WaitInit /\ [][WaitTick]_vars

\* ------------------------------------ the stop / pause check of one tick alone

\* The configurations and BBO reads of one tick: thresholds disabled or at a
\* price, a side of the BBO missing (0), the BBO crossed.
PriceChecks ==
  [direction : {"buy", "sell"},
   stop_price : {Disabled} \cup (1..MaxTickPrice),
   pause_price : {Disabled} \cup (1..MaxTickPrice),
   best_bid : 0..MaxTickPrice, best_ask : 0..MaxTickPrice]

\* run() has reached line 623 of a tick, the status check behind it.
TickInit ==
  /\ EngineInit
  /\ orders = InitialOrders(0)
  /\ StatusIdle
  /\ BookInit
  /\ MemoInit
  /\ FactoryInit
  /\ GateIdle
  /\ CallbackIdle
  /\ PriceIdle
  /\ price_check \in PriceChecks

\* run() 594 and 617-618: the loop test, then what the status check leaves.
TickStatus ==
  /\ pc = "loop"
  /\ ~shutdown_requested
  /\ pc' = "price"
  /\ \E m \in {"None", "True", "False"} :
       /\ mismatch_detected' = m
       /\ shutdown_requested' = (m = "True")
  /\ UNCHANGED <<active_close_orders, close_orders_timestamps, last_close_orders,
                 last_log_time, handlerVars, cycleLocals, worldVars, disconnects,
                 outsideEngine>>

\* run() 623-636 and 654-664 with _check_price_condition 455-482.
TickPrice ==
  /\ pc = "price"
  /\ LET r == CheckPriceCondition(price_check) IN
       IF r.raised THEN RunRaises ELSE CheckPriceWith(r.stop_trading, r.pause_trading)

SpecTick == TickInit /\ [][TickStatus \/ TickPrice]_vars

\* ------------------------------------ the periodic status check alone

\* An account of either adapter holding any position, long or short, and any
\* set of resting close orders.
CloseOrderSets ==
  {S \in SUBSET [id : Ids, size : 1..Quantity] : \A a, b \in S : a.id = b.id => a = b}

StatusInit ==
  /\ EngineInit
  /\ BookInit
  /\ MemoInit
  /\ FactoryInit
  /\ GateIdle
  /\ CallbackIdle
  /\ TickIdle
  /\ PriceIdle
  /\ exchange \in {"grvt", "lighter"}
  /\ venue_position \in (0 - MaxPosition)..MaxPosition
  /\ \E S \in CloseOrderSets :
       orders = [i \in Ids |-> IF \E o \in S : o.id = i
                               THEN [kind |-> "close", status |-> "OPEN",
                                     size |-> (CHOOSE o \in S : o.id = i).size, filled |-> 0]
                               ELSE NoOrder]

\* _log_status_periodically 375-420 on that account.
StatusCheck ==
  /\ pc = "loop"
  /\ mismatch_detected = "None"
  /\ active_close_orders' = CloseOrdersOf(orders)
  /\ last_log_time' = 1
  /\ IF StatusOutcome(exchange, venue_position, CloseOrdersOf(orders))
     THEN shutdown_requested' = TRUE /\ mismatch_detected' = "True"
     ELSE shutdown_requested' = shutdown_requested /\ mismatch_detected' = "False"
  /\ UNCHANGED <<pc, close_orders_timestamps, last_close_orders, handlerVars, cycleLocals,
                 worldVars, disconnects, outsideEngine>>

SpecStatus == StatusInit /\ [][StatusCheck]_vars

\* ------------------------------------ the Lighter order-book maintainer

outsideBook ==
  <<engineVars, venueVars, faults, historyVars, statusVars, memoVars, priceVars, tickVars,
    factoryVars, gateVars, callbackVars>>

\* connect() 248-285: reset_order_book, open the socket, subscribe.
WsConnect ==
  /\ ws_pc = "reset"
  /\ order_book' = EmptyBook
  /\ snapshot_loaded' = FALSE
  /\ best_bid' = None
  /\ best_ask' = None
  /\ order_book_offset' = None
  /\ order_book_sequence_gap' = FALSE
  /\ \E connected \in BOOLEAN :
       IF connected
       THEN /\ ws' = "open"
            /\ sent' = <<"subscribe">>
            /\ running' = TRUE
            /\ reconnect_delay' = 1              \* 284
            /\ ws_pc' = "recv"
       ELSE /\ ws' = "closed"                    \* 414-415
            /\ sent' = <<>>
            /\ ws_pc' = "backoff"
            /\ UNCHANGED <<running, reconnect_delay>>
  /\ slept' = 0
  /\ UNCHANGED <<gap_pending, order_book_lock, disconnect_called, outsideBook>>

\* connect() 417-422: sleep (only while running), then the outer loop again.
WsBackoff ==
  /\ ws_pc = "backoff"
  /\ ws_pc' = "reset"
  /\ IF running
     THEN /\ slept' = reconnect_delay
          /\ reconnect_delay' = NextDelay(reconnect_delay)
     ELSE /\ slept' = 0
          /\ UNCHANGED reconnect_delay
  /\ UNCHANGED <<order_book, best_bid, best_ask, snapshot_loaded, order_book_offset,
                 order_book_sequence_gap, running, ws, sent, gap_pending, order_book_lock,
                 disconnect_called, outsideBook>>

Receiving == ws_pc = "recv" /\ running /\ ws = "open"

\* connect() 385-393 after a frame that left the flag gap: request a fresh
\* snapshot on this connection; leave the loop when the request fails.
AfterFrame(gap) ==
  IF gap
  THEN \E request_ok \in BOOLEAN :
         IF request_ok
         THEN /\ sent' = sent \o FreshSnapshotFrames
              /\ order_book_sequence_gap' = FALSE
              /\ UNCHANGED <<ws, ws_pc>>
         ELSE /\ \E k \in 0..1 : sent' = sent \o SubSeq(FreshSnapshotFrames, 1, k)
              /\ order_book_sequence_gap' = gap
              /\ ws' = "closed"
              /\ ws_pc' = "backoff"
  ELSE /\ order_book_sequence_gap' = gap
       /\ UNCHANGED <<sent, ws, ws_pc>>

\* connect() 302-320: the snapshot frame "subscribed/order_book"; offset None is
\* a frame without the key.  The periodic cleanup of 379-383 follows every frame
\* that reaches the end of the loop body.
SnapshotFrame(offset, bid_levels, ask_levels) ==
  /\ Receiving
  /\ order_book' = CleanupOldOrderBookLevels(
                      [bids |-> UpdateOrderBook(EmptySide, bid_levels),
                       asks |-> UpdateOrderBook(EmptySide, ask_levels)], max_levels)
  /\ order_book_offset' = IF offset # None THEN offset ELSE order_book_offset
  /\ snapshot_loaded' = TRUE
  /\ gap_pending' = FALSE
  /\ AfterFrame(order_book_sequence_gap)
  /\ UNCHANGED <<best_bid, best_ask, running, order_book_lock, disconnect_called,
                 backoffVars, outsideBook>>

RecvSnapshot ==
  \E offset \in {None} \cup Offsets, bid_levels \in LevelUpdates, ask_levels \in LevelUpdates :
    SnapshotFrame(offset, bid_levels, ask_levels)

\* A maintainer that takes deltas before the snapshot.
DeltaAcceptedAlways(loaded) == TRUE

\* connect() 322 and 373-375: a delta is processed only once the snapshot is loaded.
DeltaAccepted(loaded) == loaded

\* connect() 322-364: the delta frame "update/order_book" once the snapshot is
\* loaded (before that the frame is ignored, line 373).
RecvDeltaFrame(new_offset, bid_levels, ask_levels) ==
  LET v == ValidateOrderBookOffset(order_book_offset, order_book_sequence_gap, new_offset)
      applied == [bids |-> UpdateOrderBook(order_book.bids, bid_levels),
                  asks |-> UpdateOrderBook(order_book.asks, ask_levels)]
  IN  /\ Receiving
      /\ DeltaAccepted(snapshot_loaded)
      /\ order_book_offset' = v.offset
      /\ gap_pending' = (gap_pending \/ (~v.valid /\ v.gap))
      /\ IF ~v.valid
         THEN IF v.gap
              THEN /\ order_book_sequence_gap' = TRUE         \* 339-342: break
                   /\ ws' = "closed"
                   /\ ws_pc' = "backoff"
                   /\ UNCHANGED <<order_book, best_bid, best_ask, sent>>
              ELSE /\ order_book_sequence_gap' = v.gap        \* 345: continue
                   /\ UNCHANGED <<order_book, best_bid, best_ask, sent, ws, ws_pc>>
         ELSE /\ IF ~ValidateOrderBookIntegrity(applied)
                 THEN /\ order_book' = applied
                      /\ order_book_sequence_gap' = v.gap     \* 352-355: break
                      /\ ws' = "closed"
                      /\ ws_pc' = "backoff"
                      /\ UNCHANGED <<best_bid, best_ask, sent>>
                 ELSE /\ order_book' = CleanupOldOrderBookLevels(applied, max_levels)
                      /\ best_bid' = IF BestBidLevel(applied) # None
                                     THEN BestBidLevel(applied) ELSE best_bid
                      /\ best_ask' = IF BestAskLevel(applied) # None
                                     THEN BestAskLevel(applied) ELSE best_ask
                      /\ AfterFrame(v.gap)
      /\ UNCHANGED <<snapshot_loaded, running, order_book_lock, disconnect_called,
                     backoffVars, outsideBook>>

RecvDelta ==
  \E new_offset \in Offsets, bid_levels \in LevelUpdates, ask_levels \in LevelUpdates :
    RecvDeltaFrame(new_offset, bid_levels, ask_levels)

\* connect() 301 and 366-368: a ping frame; the lock is taken and the pong handed
\* to ws.send, where connect() is suspended.
RecvPing ==
  /\ Receiving
  /\ ~order_book_lock
  /\ order_book_lock' = TRUE
  /\ ws_pc' = "pong"
  /\ UNCHANGED <<order_book, best_bid, best_ask, snapshot_loaded, order_book_offset,
                 order_book_sequence_gap, running, ws, sent, gap_pending,
                 disconnect_called, backoffVars, outsideBook>>

\* connect() 368-393 and 401-412: the send returns and the with block is left, or
\* the send raises, the lock is released and the inner loop left.  The gap flag
\* is clear whenever connect() receives, so 386-393 do nothing here.
PongSent ==
  /\ ws_pc = "pong"
  /\ order_book_lock' = FALSE
  /\ \E sent_ok \in BOOLEAN :
       IF sent_ok
       THEN ws_pc' = "recv" /\ UNCHANGED ws
       ELSE ws_pc' = "backoff" /\ ws' = "closed"
  /\ UNCHANGED <<order_book, best_bid, best_ask, snapshot_loaded, order_book_offset,
                 order_book_sequence_gap, running, sent, gap_pending,
                 disconnect_called, backoffVars, outsideBook>>

\* connect() 401-412: recv raises; the inner loop is left and the socket closed.
ConnectionClosed ==
  /\ Receiving
  /\ ws' = "closed"
  /\ ws_pc' = "backoff"
  /\ UNCHANGED <<order_book, best_bid, best_ask, snapshot_loaded, order_book_offset,
                 order_book_sequence_gap, running, sent, gap_pending, order_book_lock,
                 disconnect_called, backoffVars, outsideBook>>

\* disconnect() 424-432, called by the adapter while the loop receives.
Disconnect ==
  /\ Receiving
  /\ running' = FALSE
  /\ ws' = "closed"
  /\ ws_pc' = "backoff"
  /\ disconnect_called' = TRUE
  /\ UNCHANGED <<order_book, best_bid, best_ask, snapshot_loaded, order_book_offset,
                 order_book_sequence_gap, sent, gap_pending, order_book_lock,
                 backoffVars, outsideBook>>

BookSpecInit ==
  /\ EngineInit
  /\ orders = InitialOrders(0)
  /\ StatusIdle
  /\ BookInit
  /\ MemoInit
  /\ FactoryInit
  /\ GateIdle
  /\ CallbackIdle
  /\ TickIdle
  /\ PriceIdle

BookNext ==
  \/ WsConnect
  \/ WsBackoff
  \/ RecvSnapshot
  \/ RecvDelta
  \/ RecvPing
  \/ PongSent
  \/ ConnectionClosed
  \/ Disconnect

SpecBook == BookSpecInit /\ [][BookNext]_vars

\* ------------------------------- the adapters' order-update callbacks alone

MemoSpecInit ==
  /\ EngineInit
  /\ orders = InitialOrders(0)
  /\ StatusIdle
  /\ BookInit
  /\ MemoInit
  /\ FactoryInit
  /\ GateIdle
  /\ CallbackIdle
  /\ TickIdle
  /\ PriceIdle

\* lighter.py 308-309 / 346-347 and 286-287: a placement call forgets the tracked
\* order and draws a new client order index.
LighterPlace ==
  /\ \E client_order_index \in MemoIds : current_order_client_id' = client_order_index
  /\ current_order' = NoCurrentOrder
  /\ UNCHANGED <<orders_cache, engineVars, venueVars, faults, historyVars, statusVars, bookVars,
                 priceVars, tickVars, factoryVars, gateVars, callbackVars>>

\* lighter.py 182-209: the canonical form of one element (order_type from the
\* side, OPEN with a traded size is PARTIALLY_FILLED).
LighterCanonical(u) ==
  [otype |-> u.order_type,
   status |-> IF u.status = "OPEN" /\ u.filled_size > 0 THEN "PARTIALLY_FILLED" ELSE u.status,
   filled |-> u.filled_size]

\* lighter.py 176-232 on one element of the list: the memo and the tracked order
\* are updated; the handler kept by setup_order_update_handler (172-174) is not
\* called.
LighterDeliver(u) ==
  /\ orders_cache' = MemoAfter(orders_cache, u)
  /\ current_order' = CurrentOrderAfter(orders_cache, current_order, current_order_client_id, u)
  /\ UNCHANGED <<current_order_client_id, engineVars, venueVars, faults, historyVars,
                 statusVars, bookVars, priceVars, tickVars, factoryVars, gateVars, callbackVars>>

LighterOrderUpdate == \E u \in LighterUpdates : LighterDeliver(u)

\* What the GRVT stream can report of an order.
GrvtReports ==
  [kind : {"open", "close"}, status : {"PENDING", "OPEN", "FILLED", "CANCELLED", "REJECTED"},
   filled : 0..MaxFilled]

\* grvt.py 134-204 handing the canonical update to order_update_handler 104-158.
GrvtOrderUpdate ==
  \E o \in GrvtReports :
    /\ Forwarded(Normalize(o).status)
    /\ LET h == OrderUpdateHandler(HandlerFields, Normalize(o)) IN
         /\ order_filled_amount' = h.amount
         /\ order_filled_event' = h.filled
         /\ order_canceled_event' = h.canceled
    /\ UNCHANGED <<pc, shutdown_requested, loopVars, cycleLocals, worldVars, disconnects,
                   outsideEngine>>

MemoNext == LighterPlace \/ LighterOrderUpdate \/ GrvtOrderUpdate

SpecMemo == MemoSpecInit /\ [][MemoNext]_vars

\* ------------------------------- LighterClient.place_open_order alone

\* lighter.py 344-348, called by the engine between two place_open_order calls.
LighterPlaceClose == open_pc = "idle" /\ LighterPlace

\* lighter.py 305-318: the tracked order and the client index are forgotten,
\* place_limit_order draws a new client order index (286-287) and submits;
\* a refused submission raises (313-314).
LighterPlaceOpen ==
  /\ open_pc = "idle"
  /\ current_order' = NoCurrentOrder
  /\ \E client_order_index \in MemoIds : current_order_client_id' = client_order_index
  /\ \E success \in BOOLEAN :
       IF success
       THEN open_pc' = "wait" /\ open_order_result' = NoOpenResult
       ELSE open_pc' = "idle" /\ open_order_result' = [NoOpenResult EXCEPT !.outcome = "raised"]
  /\ UNCHANGED <<orders_cache, wait_check, grid_check, engineVars, venueVars, faults,
                 historyVars, statusVars, bookVars, priceVars, tickVars, factoryVars,
                 callbackVars>>

\* lighter.py 320-332: the loop ends after ten seconds or once the tracked
\* order is FILLED, and the result is read from current_order, whatever it
\* holds; reading a field of None raises AttributeError.
LighterOpenReturn ==
  /\ open_pc = "wait"
  /\ open_pc' = "idle"
  /\ open_order_result' =
       IF current_order = NoCurrentOrder
       THEN [NoOpenResult EXCEPT !.outcome = "raised"]
       ELSE [outcome |-> "returned", order_id |-> current_order.order_id,
             status |-> current_order.status]
  /\ UNCHANGED <<memoVars, wait_check, grid_check, engineVars, venueVars, faults,
                 historyVars, statusVars, bookVars, priceVars, tickVars, factoryVars,
                 callbackVars>>

OpenNext == LighterPlaceOpen \/ LighterOrderUpdate \/ LighterOpenReturn \/ LighterPlaceClose

SpecOpen == MemoSpecInit /\ [][OpenNext]_vars

\* ------------------------------------- pricing the close order alone

OpenPrices == {k * PriceUnit : k \in 1..MaxOpenPrices}
BboLevels == {k * (PriceUnit \div 2) : k \in 1..(2 * MaxOpenPrices + 1)}

\* _handle_order_result is entered with the open order of the cycle (its price as
\* place_open_order returned it) filled in full, or cancelled with a partial fill.
CloseRequests ==
  {r \in [adapter : {"grvt", "lighter"}, boost_mode : BOOLEAN, close_side : {"sell", "buy"}, take_profit : 1..MaxTakeProfit,
          filled_price : OpenPrices, fill : {"full", "partial"},
          best_bid : BboLevels, best_ask : BboLevels] : r.best_bid < r.best_ask}

PriceInit ==
  /\ EngineInit
  /\ orders = InitialOrders(0)
  /\ StatusIdle
  /\ BookInit
  /\ MemoInit
  /\ FactoryInit
  /\ GateIdle
  /\ CallbackIdle
  /\ TickIdle
  /\ close_request \in CloseRequests
  /\ close_order_result = NoCloseResult
  /\ open_quote = NoOpenQuote

\* _handle_order_result 232-252 / 333-353 and the price place_close_order
\* submits a limit close at: adjusted on GRVT (grvt.py 373-382), as passed on
\* Lighter (lighter.py 344-348).
PlaceClose ==
  /\ close_order_result = NoCloseResult
  /\ LET call == EngineCloseCall(close_request) IN
       close_order_result' =
         [kind |-> call.kind, price |-> call.price,
          adjusted_price |-> IF call.kind # "limit" THEN None
                             ELSE IF close_request.adapter = "lighter" THEN call.price
                             ELSE AdjustedPrice(call.price, close_request.close_side,
                                                close_request.best_bid, close_request.best_ask)]
  /\ UNCHANGED <<close_request, open_quote, engineVars, venueVars, faults, historyVars, statusVars,
                 bookVars, memoVars, tickVars, factoryVars, gateVars, callbackVars>>

SpecPrice == PriceInit /\ [][PlaceClose]_vars

\* ------------------------------------ the price of an open order alone

\* place_open_order is entered: the adapter, config.direction and the prices of
\* the active close orders.
QuoteInit ==
  /\ EngineInit
  /\ orders = InitialOrders(0)
  /\ StatusIdle
  /\ BookInit
  /\ MemoInit
  /\ FactoryInit
  /\ GateIdle
  /\ CallbackIdle
  /\ TickIdle
  /\ close_request = NoCloseRequest
  /\ close_order_result = NoCloseResult
  /\ \E adapter \in {"grvt", "lighter"}, direction \in {"buy", "sell"},
        closes \in SUBSET OpenPrices :
       open_quote = [NoOpenQuote EXCEPT !.adapter = adapter, !.direction = direction,
                                        !.closes = closes]

\* One attempt of place_open_order with the BBO it fetches (grvt.py 314-339,
\* lighter.py 305-313): GRVT goes round again after REJECTED, Lighter submits
\* once.
QuoteOpen ==
  /\ open_quote.status \in {"NONE", "REJECTED"}
  /\ \E bid \in BboLevels, ask \in BboLevels :
       /\ bid < ask
       /\ \E status \in IF open_quote.adapter = "grvt" THEN {"OPEN", "REJECTED"}
                         ELSE {"OPEN"} :
            open_quote' =
              [open_quote EXCEPT !.best_bid = bid, !.best_ask = ask,
                                 !.price = OpenOrderPrice(open_quote, bid, ask),
                                 !.status = status]
  /\ UNCHANGED <<close_request, close_order_result, engineVars, venueVars, faults,
                 historyVars, statusVars, bookVars, memoVars, tickVars, factoryVars,
                 gateVars, callbackVars>>

SpecQuote == QuoteInit /\ [][QuoteOpen]_vars

\* --------------------------- pruning a book side (cleanup 197-218) alone

AllBooks == [bids : [Prices -> Sizes], asks : [Prices -> Sizes]]

\* The maintainer has processed a delta on any book and the cleanup of 379-383 is
\* due, with MaxLevels levels kept a side.
PruneInit ==
  /\ EngineInit
  /\ orders = InitialOrders(0)
  /\ StatusIdle
  /\ MemoInit
  /\ FactoryInit
  /\ GateIdle
  /\ CallbackIdle
  /\ TickIdle
  /\ PriceIdle
  /\ order_book \in AllBooks
  /\ best_bid = BestBidLevel(order_book)
  /\ best_ask = BestAskLevel(order_book)
  /\ snapshot_loaded = TRUE
  /\ order_book_offset \in Offsets
  /\ order_book_sequence_gap = FALSE
  /\ running = TRUE
  /\ ws = "open"
  /\ ws_pc = "cleanup"
  /\ order_book_lock = FALSE
  /\ sent = <<"subscribe">>
  /\ gap_pending = FALSE
  /\ disconnect_called = FALSE
  /\ reconnect_delay = 1
  /\ slept = 0

\* connect() 380-383 with the counter at its threshold.
PruneStep ==
  /\ ws_pc = "cleanup"
  /\ order_book' = CleanupOldOrderBookLevels(order_book, MaxLevels)
  /\ ws_pc' = "recv"
  /\ UNCHANGED <<best_bid, best_ask, snapshot_loaded, order_book_offset,
                 order_book_sequence_gap, running, ws, sent, gap_pending, order_book_lock,
                 disconnect_called, backoffVars, outsideBook>>

SpecPrune == PruneInit /\ [][PruneStep]_vars

\* ------------------------------------------------ properties of Spec

\* C1: in every reachable state the venue holds at most one resting (OPEN or
\* PARTIALLY_FILLED) open-side order placed by the engine.
C1_AtMostOneRestingOpen == Cardinality(ActiveOpenOrders(orders)) <= 1

\* C2: when a cycle returns to the loop, the size of the close orders it submitted
\* equals the traded size of the open order it got back.
C2_CloseMatchesFill == pc = "cycle_end" => cycle_close_sum = cycle_open_filled

InCycle ==
  pc \in {"cycle", "open_attempt", "handle", "stale", "cancel", "cancel_wait",
          "post_cancel", "close_attempt", "cycle_end"}

C4_NoCycleAtCap == pc \in {"grid", "cycle"} => Cardinality(active_close_orders) < max_orders

\* C5: |active_close_orders| <= max_orders + 1 (the run starts with at most
\* max_orders close orders and only the engine places close orders).
C5_CloseCountBound == Cardinality(active_close_orders) <= max_orders + 1

TimestampsMatch == close_orders_timestamps = {o.id : o \in active_close_orders}

\* C7: after the reconciliation at the top of a loop iteration (run() 594-615) the
\* key set of close_orders_timestamps equals the ids of active_close_orders.
C7_AfterReconciliation == pc = "status" => TimestampsMatch

C7_Reconciled ==
  pc = "status" /\ close_orders_timestamps # {} /\ last_close_orders > 0

\* C7 as stated: the equality after every step that rebuilds active_close_orders,
\* the rebuild in _log_status_periodically (374-385) included.
C7_AfterEveryRebuild == pc \in {"status", "price"} => TimestampsMatch

C29_FilledAmountAfterCancel ==
  pc = "post_cancel" => order_filled_amount = cycle_open_filled

\* stale(direction, p_new, p_old) as C30 defines it.
StaleAsStated(direction, p_new, p_old) ==
  IF direction = "buy" THEN p_new <= p_old ELSE p_new >= p_old

\* C30 as stated: cancel_order is issued for an order that is still OPEN only
\* when stale(direction, p_new, p_old) holds.
C30_CancelWhenStale ==
  [][\A d \in {"buy", "sell"}, p_new \in 1..MaxTickPrice, p_old \in 1..MaxTickPrice :
       ( /\ StaleWith(d, p_new, p_old)
         /\ pc' = "cancel"
         /\ orders[order_result.order_id].status = "OPEN" )
       => StaleAsStated(d, p_new, p_old)]_vars

\* C30: after the fill wait has timed out the engine goes on to cancel_order
\* exactly when the order is no longer OPEN or the maker price has moved away
\* from the order (p_new > p_old for buy, p_new < p_old for sell); otherwise it
\* waits again.
C30_CancelWhenPriceMovedAway ==
  [][\A d \in {"buy", "sell"}, p_new \in 1..MaxTickPrice, p_old \in 1..MaxTickPrice :
       StaleWith(d, p_new, p_old) =>
         ( pc' = "cancel" <=>
             \/ orders[order_result.order_id].status # "OPEN"
             \/ IF d = "buy" THEN p_new > p_old ELSE p_new < p_old )]_vars

\* cancel_order is due for an order that is still OPEN: the price moved away.
C30_CancelDueWhileOpen ==
  pc = "cancel" /\ orders[order_result.order_id].status = "OPEN" /\ Settled

\* C31, the "only at those ticks" half: at every tick, _calculate_wait_time
\* returns 0 whatever the elapsed time (the cool-down is skipped) only when the
\* number of active close orders the tick has read is lower than the number the
\* previous tick had read.
C31_SkipOnlyWhenCountDecreased ==
  [][(pc = "loop" /\ pc' = "status")
       => ( CalculateWaitTime(Cardinality(active_close_orders'), last_close_orders,
                              FALSE) = 0
            => Cardinality(active_close_orders') < Cardinality(active_close_orders) )]_vars

\* C18: a cycle reaches the placement of its close order only after its own open
\* order has a non-zero filled quantity at the venue.
C18_CloseOnlyAfterOwnFill == pc = "close_attempt" => cycle_open_filled > 0

\* C19: an invalid BBO met by the stop/pause check or by the grid-step gate does
\* not shut the engine down: the loop goes on to its next tick.
C19_InvalidBboNextTick ==
  [][(pc \in {"price", "grid"} /\ RunRaises) => (pc' = "loop" /\ ~shutdown_requested')]_vars

\* C20: a placement whose order is still PENDING after 10 s leaves the placement
\* call and aborts the cycle; no further order is submitted in it.
C20_TimeoutAbortsCycle ==
  [][(\E i \in Ids : orders[i].status # "PENDING" /\ orders'[i].status = "PENDING")
       => pc' = "cycle_end"]_vars

\* C22: whenever run() ends, by the loop test after a stop price or a position
\* mismatch, by KeyboardInterrupt or by an exception, the step that ends it calls
\* the adapter's disconnect(); on the interrupt and exception paths every such
\* call finds shutdown_requested set.
C22_DisconnectOnEveryExit ==
  [][(pc # "done" /\ pc' = "done")
       => /\ Len(disconnects') > Len(disconnects)
          /\ (RunRaises \/ KeyboardInterrupt)
               => /\ shutdown_requested'
                  /\ \A k \in (Len(disconnects) + 1)..Len(disconnects') : disconnects'[k]]_vars

\* run() has ended by its loop test after the status check requested the
\* shutdown: the finally clause made the only call of disconnect().
C22_RunEnded == pc = "done" /\ disconnects = <<TRUE>> /\ last_log_time = 1

\* C21: an attempt of place_open_order whose number is a multiple of 5 and that
\* finds more than one active open-side order submits nothing and ends the call;
\* the cycle then returns to the loop with no close order placed and shutdown
\* not requested.
C21_GuardAbortsCycle ==
  [][/\ ( /\ OpenAttempt
          /\ (attempt + 1) % AttemptCheckEvery = 0
          /\ Cardinality(ActiveOpenOrders(orders)) > 1 )
        => /\ pc' = "cycle_end"
           /\ UNCHANGED <<orders, events, shutdown_requested>>
           /\ ~shutdown_requested
     /\ (pc = "cycle_end" /\ pc' # pc)
        => /\ pc' = "loop"
           /\ UNCHANGED <<orders, events, shutdown_requested>>]_vars

\* The fifth attempt of place_open_order is due with two open-side orders resting.
C21_GuardDue ==
  /\ pc = "open_attempt"
  /\ Settled
  /\ (attempt + 1) % AttemptCheckEvery = 0
  /\ Cardinality(ActiveOpenOrders(orders)) > 1

\* ------------------------------------------ properties of SpecStatus

\* C6: the status check flags a mismatch exactly when
\* | |position| - sum of the active close orders' sizes | > 2 * quantity, whatever
\* the sign of the position the venue returns.
C6_MismatchIffAbsoluteGap ==
  mismatch_detected # "None" =>
    /\ (mismatch_detected = "True") <=>
          (Abs(Abs(venue_position) - SumSizes(active_close_orders)) > 2 * Quantity)
    /\ shutdown_requested <=> (mismatch_detected = "True")

\* -------------------------------------------- properties of SpecBook

StaleDelta(new_offset) == order_book_offset # None /\ new_offset <= order_book_offset
GapDelta(new_offset) == order_book_offset # None /\ new_offset > order_book_offset + 1

\* C8: a delta whose offset is at most the tracked offset leaves bids, asks, the
\* tracked offset, best_bid and best_ask unchanged.
C8_StaleDeltaIgnored ==
  [][\A new_offset \in Offsets, bid_levels \in LevelUpdates, ask_levels \in LevelUpdates :
       (StaleDelta(new_offset) /\ RecvDeltaFrame(new_offset, bid_levels, ask_levels))
         => UNCHANGED <<order_book, order_book_offset, best_bid, best_ask>>]_vars

\* C9: in every reachable state with both sides of the book non-empty,
\* max(bids) < min(asks).
C9_BookNeverCrossed ==
  (Levels(order_book.bids) # {} /\ Levels(order_book.asks) # {})
    => SetMax(Levels(order_book.bids)) < SetMin(Levels(order_book.asks))

\* C11: from the detection of a sequence gap until the next snapshot has been
\* applied no delta frame is processed, and the step that ends the wait is a
\* snapshot that leaves its own offset as the tracked offset.
C11_NoDeltaUntilSnapshot ==
  [][gap_pending =>
       /\ \A new_offset \in Offsets, bid_levels \in LevelUpdates, ask_levels \in LevelUpdates :
            ~RecvDeltaFrame(new_offset, bid_levels, ask_levels)
       /\ ~gap_pending' =>
            \E offset \in {None} \cup Offsets, bid_levels \in LevelUpdates,
               ask_levels \in LevelUpdates :
              /\ SnapshotFrame(offset, bid_levels, ask_levels)
              /\ order_book_offset' = offset]_vars

\* The maintainer receives on the connection that replaced the one a gap closed,
\* the snapshot not applied yet.
C11_AwaitingSnapshot == gap_pending /\ Receiving /\ ~snapshot_loaded

\* C10: a delta whose offset exceeds the tracked offset + 1 marks the gap and,
\* the request not failing, leaves the connection open with unsubscribe then
\* subscribe sent on it.
C10_GapResubscribes ==
  [][\A new_offset \in Offsets, bid_levels \in LevelUpdates, ask_levels \in LevelUpdates :
       (GapDelta(new_offset) /\ RecvDeltaFrame(new_offset, bid_levels, ask_levels))
         => /\ ws' = "open"
            /\ sent' = sent \o FreshSnapshotFrames]_vars

\* C34, its first part: every pass from a lost connection or a failed attempt to
\* the next attempt waits.
C34_AlwaysWaits ==
  [][(ws_pc = "backoff" /\ ws_pc' = "reset") => slept' > 0]_vars

\* C23: once disconnect() has been called, connect() never sets running again
\* and never has an open connection again.
C23_DisconnectIsFinal == disconnect_called => (~running /\ ws = "closed")

\* C24: connect() is never suspended in a WebSocket send while it holds
\* order_book_lock.
C24_NoSendUnderLock == ws_pc = "pong" => ~order_book_lock

\* C12: a snapshot whose levels are those of a book B that a contiguous delta
\* sequence reaches exposes the best bid and ask the delta path exposes for B.
\* For B uncrossed with a qualifying level on each side the delta path exposes
\* the best qualifying levels of B, whatever was exposed before.
C12_SnapshotMatchesDeltaPath ==
  [][\A offset \in {None} \cup Offsets, bid_levels \in LevelUpdates, ask_levels \in LevelUpdates :
       ( /\ SnapshotFrame(offset, bid_levels, ask_levels)
         /\ ValidateOrderBookIntegrity(order_book')
         /\ BestBidLevel(order_book') # None
         /\ BestAskLevel(order_book') # None )
       => /\ best_bid' = BestBidLevel(order_book')
          /\ best_ask' = BestAskLevel(order_book')]_vars

\* C13: while the maintainer receives with its snapshot applied, the exposed
\* best_bid is the highest bid of the current book with price * size >= 40000 and
\* the exposed best_ask the lowest such ask, None when the book has none.
C13_BestLevelsCurrent ==
  (Receiving /\ snapshot_loaded) =>
    /\ best_bid = BestBidLevel(order_book)
    /\ best_ask = BestAskLevel(order_book)

\* C14: whenever the maintainer has no live connection with a loaded snapshot,
\* fetch_bbo_prices fails.
C14_NoStaleBbo ==
  ~(ws = "open" /\ snapshot_loaded) => ~FetchBboPrices(best_bid, best_ask).ok

\* ------------------------------------------- properties of SpecPrune

\* C15: get_best_levels returns the same best bid and best ask before and after
\* cleanup_old_order_book_levels.
C15_PruneKeepsBest ==
  [][PruneStep => /\ BestBidLevel(order_book') = BestBidLevel(order_book)
                  /\ BestAskLevel(order_book') = BestAskLevel(order_book)]_vars

\* -------------------------------------------- properties of SpecMemo

\* C16: an OPEN update delivered a second time leaves the tracked order, the memo
\* and the engine's fields as the first delivery left them, on both adapters; a
\* FILLED or CANCELED update leaves no memo entry for its order.
C16_DuplicateOpenIdempotent ==
  /\ \A u \in LighterUpdates :
       LET cache1 == MemoAfter(orders_cache, u)
           cur1 == CurrentOrderAfter(orders_cache, current_order, current_order_client_id, u)
       IN  /\ u.status = "OPEN" =>
                /\ MemoAfter(cache1, u) = cache1
                /\ CurrentOrderAfter(cache1, cur1, current_order_client_id, u) = cur1
           /\ u.status \in {"FILLED", "CANCELED"} => cache1[u.order_index] = NoMemo
  /\ \A o \in GrvtReports :
       (o.status = "OPEN" /\ Forwarded(Normalize(o).status)) =>
         LET h1 == OrderUpdateHandler(HandlerFields, Normalize(o))
         IN  OrderUpdateHandler(h1, Normalize(o)) = h1

\* An OPEN update has been delivered: its order is memoised and tracked, and the
\* engine has seen a fill.
C16_OpenDelivered ==
  /\ \E i \in MemoIds : orders_cache[i].status = "OPEN" /\ current_order.order_id = i
  /\ order_filled_event

\* C25: every canonical update that is not suppressed as a duplicate is handed to
\* the registered handler: the step that delivers it leaves the engine's fields
\* as order_update_handler leaves them after that update.
C25_HandlerInvokedPerUpdate ==
  [][\A u \in LighterUpdates :
       ( /\ LighterDeliver(u)
         /\ ~LighterSuppressed(orders_cache, u)
         /\ Forwarded(LighterCanonical(u).status) )
       => /\ order_filled_event' =
               OrderUpdateHandler(HandlerFields, LighterCanonical(u)).filled
          /\ order_canceled_event' =
               OrderUpdateHandler(HandlerFields, LighterCanonical(u)).canceled
          /\ order_filled_amount' =
               OrderUpdateHandler(HandlerFields, LighterCanonical(u)).amount]_vars

\* ----------------------------------------- properties of SpecFactory

SameLetter(x, y) == x = y \/ {x, y} = {"a", "A"} \/ {x, y} = {"b", "B"}

SameName(m, n) == Len(m) = Len(n) /\ \A i \in 1..Len(m) : SameLetter(m[i], n[i])

\* C27: create_exchange succeeds exactly for the names that equal a registered
\* name up to letter case and never changes the registry; register_exchange
\* with a class that is not a BaseExchangeClient fails and leaves the registry
\* unchanged; after a successful registration every spelling of the name
\* resolves to the registered class.
C27_FactoryContract ==
  [][/\ \A n \in Names :
          CreateExchange(n) =>
            /\ UNCHANGED registered_exchanges
            /\ factory_result'.ok =
                 (\E k \in Names : registered_exchanges[k] # NoClass /\ SameName(k, n))
     /\ \A n \in Names, c \in ExchangeClasses :
          RegisterExchange(n, c) =>
            IF c.is_adapter
            THEN /\ factory_result'.ok
                 /\ \A m \in Names :
                      SameName(m, n) =>
                        /\ \E k \in Names :
                             registered_exchanges'[k] # NoClass /\ SameName(k, m)
                        /\ \A k \in Names :
                             (SameName(k, m) /\ registered_exchanges'[k] # NoClass)
                               => registered_exchanges'[k] = c.path
            ELSE /\ ~factory_result'.ok
                 /\ UNCHANGED registered_exchanges]_vars

\* A venue registered under a name written in upper case has been created.
C27_RegisteredThenCreated ==
  /\ factory_result = [op |-> "create", ok |-> TRUE, path |-> "exchanges.y.YClient"]
  /\ registered_exchanges[<<"b", "a">>] = "exchanges.y.YClient"

\* ------------------------------------------- properties of SpecTick

BboValid(c) == c.best_bid > 0 /\ c.best_ask > 0 /\ c.best_bid < c.best_ask

Crossed(direction, bid, ask, threshold) ==
  threshold # Disabled /\ IF direction = "buy" THEN ask >= threshold ELSE bid <= threshold

\* C26: at a tick that reads a valid BBO (or reads none, both thresholds being
\* -1): an enabled stop_price reached (best_ask >= it for buy, best_bid <= it for
\* sell) requests the shutdown; otherwise an enabled pause_price reached restarts
\* the loop with no open order and no shutdown; a threshold of -1 triggers
\* neither.
C26_StopAndPauseThresholds ==
  [][(TickPrice /\ (BboValid(price_check) \/
                    (price_check.stop_price = Disabled /\ price_check.pause_price = Disabled)))
     => LET c == price_check
            stop == Crossed(c.direction, c.best_bid, c.best_ask, c.stop_price)
            pause == Crossed(c.direction, c.best_bid, c.best_ask, c.pause_price)
        IN  /\ stop => /\ shutdown_requested'
                       /\ disconnects' = Append(disconnects, TRUE)
                       /\ pc' = "loop"
            /\ (~stop /\ pause) => pc' = "loop" /\ UNCHANGED <<shutdown_requested, disconnects>>
            /\ (~stop /\ ~pause) =>
                 /\ pc' = IF mismatch_detected = "True" THEN "loop" ELSE "wait"
                 /\ UNCHANGED <<shutdown_requested, disconnects>>]_vars

\* The tick found both thresholds reached and the stop won.
C26_StopWon ==
  /\ pc = "loop"
  /\ shutdown_requested
  /\ disconnects = <<TRUE>>
  /\ BboValid(price_check)
  /\ Crossed(price_check.direction, price_check.best_bid, price_check.best_ask,
             price_check.stop_price)
  /\ Crossed(price_check.direction, price_check.best_bid, price_check.best_ask,
             price_check.pause_price)

\* ------------------------------------------- properties of SpecQuote

\* C38: every attempt of place_open_order prices the order at
\* best_ask - tick_size (buy) or best_bid + tick_size (sell) of the BBO fetched
\* for that attempt.
C38_OpenAtMakerPrice ==
  open_quote.status # "NONE" =>
    open_quote.price = IF open_quote.direction = "buy"
                       THEN open_quote.best_ask - tick_size
                       ELSE open_quote.best_bid + tick_size

\* ------------------------------------------- properties of SpecCallback

C36_OtherContractDropped ==
  [][( /\ ~callback_check.done
       /\ callback_check'.done
       /\ callback_check.contract_id # "own" )
       => UNCHANGED <<current_order_status, order_filled_amount, order_filled_event,
                      order_canceled_event, orders_cache, current_order>>]_vars

\* A FILLED update of another contract has come in for an index that is memoised
\* and tracked as OPEN, and a FILLED update of an open order of another contract
\* has found the engine waiting.
C36_OtherContractSeen ==
  /\ callback_check.done
  /\ callback_check.contract_id = "other"
  /\ callback_check.message.status = "FILLED"
  /\ \/ /\ callback_check.adapter = "lighter"
        /\ orders_cache[callback_check.message.order_index].status = "OPEN"
        /\ current_order.order_id = callback_check.message.order_index
        /\ current_order.status = "OPEN"
     \/ /\ callback_check.adapter = "grvt"
        /\ current_order_status = "OPEN"
        /\ ~order_filled_event
        /\ callback_check.message.is_buying_asset
        /\ callback_check.close_order_side = "sell"

\* C40: an update of order_type CLOSE changes none of order_filled_event,
\* order_canceled_event, current_order_status and order_filled_amount; an event
\* is set or order_filled_amount changed only by a FILLED or CANCELED update of
\* order_type OPEN, which sets its event and the amount; a PARTIALLY_FILLED
\* update changes current_order_status at most.
C40_HandlerFrame ==
  [][( /\ ~callback_check.done
       /\ callback_check'.done
       /\ callback_check'.handled # NoMessage )
       => LET m == callback_check'.handled IN
            /\ m.otype = "CLOSE"
                 => UNCHANGED <<handlerVars, current_order_status>>
            /\ ~(m.otype = "OPEN" /\ m.status \in {"FILLED", "CANCELED"})
                 => UNCHANGED handlerVars
            /\ (m.otype = "OPEN" /\ m.status = "FILLED")
                 => /\ order_filled_event'
                    /\ order_filled_amount' = m.filled
                    /\ UNCHANGED order_canceled_event
            /\ (m.otype = "OPEN" /\ m.status = "CANCELED")
                 => /\ order_canceled_event'
                    /\ order_filled_amount' = m.filled
                    /\ UNCHANGED order_filled_event
            /\ m.otype = "OPEN" => current_order_status' = m.status]_vars

\* A FILLED update of a close order has reached the handler and left the
\* engine's fields of the open order alone.
C40_CloseFillHandled ==
  /\ callback_check.done
  /\ callback_check.handled.otype = "CLOSE"
  /\ callback_check.handled.status = "FILLED"
  /\ callback_check.handled.filled > 0
  /\ ~order_filled_event
  /\ order_filled_amount = 0
  /\ current_order_status = "OPEN"

\* ------------------------------------------- properties of SpecGrid

\* C33: with an active close order and a valid BBO the gate lets the open proceed
\* iff lowest close price / (best_ask * (1 + take_profit/100)) > 1 + grid_step/100
\* (buy) or (best_bid * (1 - take_profit/100)) / highest close price
\* > 1 + grid_step/100 (sell); with no close order it always does; a tick it
\* blocks goes back to the loop and places no order.
C33_GridStepGate ==
  [][(pc = "grid" /\ pc' # pc)
       => LET g == grid_check
              exceeds ==
                IF g.direction = "buy"
                THEN \A c \in g.closes :
                       c * 10000 > g.best_ask * (100 + g.take_profit) * (100 + g.grid_step)
                ELSE \A c \in g.closes :
                       g.best_bid * (100 - g.take_profit) > c * (100 + g.grid_step)
          IN /\ g.closes = {} => pc' = "cycle"
             /\ (g.closes # {} /\ 0 < g.best_bid /\ g.best_bid < g.best_ask)
                  => /\ pc' = "cycle" <=> exceeds
                     /\ ~exceeds => (pc' = "loop" /\ UNCHANGED <<orders, events>>)]_vars

\* The gate has blocked a buy although one of the two close orders is a full
\* step away.
C33_BlockedByNearest ==
  /\ pc = "loop"
  /\ grid_check.direction = "buy"
  /\ Cardinality(grid_check.closes) = 2
  /\ SetMax(grid_check.closes) * 10000 >
       grid_check.best_ask * (100 + grid_check.take_profit) * (100 + grid_check.grid_step)

\* ------------------------------------------- properties of SpecWait

\* C32: with r = n / max_orders < 1 and the close count not lower than at the
\* previous tick, the tick goes past the cool-down only if
\* now - last_open_order_time exceeds wait_time/4 (r < 1/6), wait_time/2
\* (1/6 <= r < 1/3), wait_time (1/3 <= r < 2/3) or 2 * wait_time (2/3 <= r < 1),
\* and it does whenever the time since a stamped last_open_order_time exceeds
\* it; a tick that does not go past sleeps 1 second.
C32_TieredCoolDown ==
  [][\A n \in 0..MaxCloseCount, now \in ClockStart..(ClockStart + MaxNow),
        opened \in BOOLEAN, filled \in BOOLEAN :
       ( /\ WaitTickAt(n, now, opened, filled)
         /\ n >= wait_check.last_close_orders
         /\ n < wait_check.max_orders )
       => LET cap == wait_check.max_orders
              wait4 == IF 6 * n < cap THEN wait_check.wait_time
                       ELSE IF 3 * n < cap THEN 2 * wait_check.wait_time
                       ELSE IF 3 * n < 2 * cap THEN 4 * wait_check.wait_time
                       ELSE 8 * wait_check.wait_time
              elapsed4 == 4 * (now - wait_check.last_open_order_time)
          IN /\ wait_check'.wait = 0 => elapsed4 > wait4
             /\ (wait_check.last_open_order_time # 0 /\ elapsed4 > wait4)
                  => wait_check'.wait = 0
             /\ wait_check'.wait # 0 => wait_check'.wait = 1]_vars

\* A tick at half the cap has gone past a cool-down of wait_time that a
\* stamped last_open_order_time started.
C32_PastCoolDown ==
  /\ wait_check.wait = 0
  /\ wait_check.n > 0
  /\ 2 * wait_check.n = wait_check.max_orders
  /\ wait_check.wait_time > 1
  /\ wait_check.last_open_order_time # 0
  /\ wait_check.last_open_order_time < wait_check.now

\* ------------------------------------------- properties of SpecPrice

\* C37: a limit close is submitted at best_bid + tick_size (sell with price <=
\* best_bid), at best_ask - tick_size (buy with price >= best_ask) or at the
\* requested price, so that a sell close is above best_bid and a buy close below
\* best_ask.
C37_CloseAtMakerPrice ==
  close_order_result.kind = "limit" =>
    LET r == close_request
        price == close_order_result.price
        submitted == close_order_result.adjusted_price
    IN  /\ submitted = IF r.close_side = "sell" /\ price <= r.best_bid
                       THEN r.best_bid + tick_size
                       ELSE IF r.close_side = "buy" /\ price >= r.best_ask
                       THEN r.best_ask - tick_size
                       ELSE price
        /\ r.close_side = "sell" => submitted > r.best_bid
        /\ r.close_side = "buy" => submitted < r.best_ask

\* C17: every close order submitted after a full fill or after a cancel with a
\* partial fill is priced at p * (1 +- take_profit / 100), p the open order's
\* price, whatever the BBO when the close is placed.
C17_CloseAtTakeProfit ==
  close_order_result.kind = "limit" =>
    LET tp == TakeProfitPrice(close_request.filled_price, close_request.close_side,
                              close_request.take_profit)
    IN  /\ close_order_result.price = tp
        /\ close_order_result.adjusted_price = tp

\* ------------------------------------------- properties of SpecOpen

\* C39: when place_open_order reads current_order to build its result,
\* current_order is set and holds an OPEN-type order, and every update tracked
\* while the call waits carries the client order index the call submitted.
C39_ReturnsSubmittedOrder ==
  [][/\ LighterOpenReturn
          => current_order # NoCurrentOrder /\ current_order.order_type = "OPEN"
     /\ \A u \in LighterUpdates :
          (open_pc = "wait" /\ LighterDeliver(u) /\ current_order' # current_order)
            => u.client_order_index = current_order_client_id]_vars

====
